---- MODULE Spec2Model ----
(***************************************************************************)
(* Model of the numeric kernel library of VisionAI-ClipsMaster:            *)
(*   src/src/hardware/simd_kernels.cpp      tier kernels, blocked matrix   *)
(*                                          multiply, dispatcher           *)
(*   src/src/hardware/assembly_kernels.cpp  asm_* kernels                  *)
(*   src/src/hardware/pipeline_opt.c        capability detection           *)
(*                                                                         *)
(* float values are modelled by the integers they hold exactly; every      *)
(* input used here is a small integer, for which float arithmetic is       *)
(* exact.  A buffer of n elements is modelled together with the memory     *)
(* that follows it: a function on 0..Cap(n)-1 whose entries at indices     *)
(* >= n are not part of the caller's buffer.                               *)
(***************************************************************************)
EXTENDS Integers, Sequences, FiniteSets, TLC

VARIABLES macros,   \* compiler-predefined macros of the build
          cpu,      \* answers of the running CPU to the CPUID queries
          args,     \* the arguments the caller passes to the next call
          simd,     \* last call of a tier kernel of simd_kernels.cpp
          disp,     \* last call of dispatch_matrix_multiply
          mm,       \* last call of matrix_multiply_optimized / matrix_multiply
          asmk,     \* last call of an asm_* kernel of assembly_kernels.cpp
          brand,    \* static char brand[64] of get_cpu_brand_string
          features_str, \* static char features_str[256] of get_cpu_features_string
          th,       \* the threads that are inside a memoized string getter
          info,     \* the calls of the query functions made so far
          sched,    \* the thread that ran last and the preemptions so far
          peak_memory, \* static uint64_t peak_memory of mem_probe
          memlog    \* last call of mem_probe / check_memory_usage

vars == <<macros, cpu, args, simd, disp, mm, asmk, brand, features_str, th, info,
          sched, peak_memory, memlog>>

\* the state of memory_probes.c
prober == <<peak_memory, memlog>>

\* the state of pipeline_opt.c and of the query functions
detector == <<brand, features_str, th, info, sched>>

\* ------------------------------------------------------------------ bounds
MaxN == 17          \* largest element count passed to a tier kernel
MaxPat == 2         \* number of input patterns

\* ----------------------------------------------------------------- helpers
Idle == [fn |-> "none"]

\* pipeline_opt.c before any call: the static buffers are zero-filled
NUL == "NUL"
\* memory_probes.c before any call
ProberIdle ==
    /\ peak_memory = 0
    /\ memlog = [fn |-> "none"]

\* no thread has run
NoThread == [running |-> 0, preempts |-> 0]

DetectorIdle ==
    /\ brand = [x \in 0..63 |-> NUL]
    /\ features_str = [x \in 0..255 |-> NUL]
    /\ th = <<>>
    /\ info = Idle
    /\ sched = NoThread

Range(lo, hi) == {x \in lo..(hi - 1) : TRUE}

Pow2(k) == 2 ^ k

\* (x & (1 << k)) != 0; a 32-bit register is held as the signed integer
\* with the same bits, for which the floor division is the shift
Bit(x, k) == (x \div Pow2(k)) % 2 = 1

\* input pattern p: the value stored at index x
Val(p, x) == ((p * (x + 1) + x \div 3) % 7) - 3

\* widest vector of any tier, in floats
MaxWidth == 16

\* a buffer of n elements and the memory behind it, up to the next multiple
\* of the widest vector
Cap(n) == MaxWidth * ((n + MaxWidth - 1) \div MaxWidth)

Mem(p, n) == [x \in Range(0, Cap(n)) |-> Val(p, x)]

\* a buffer of n elements as the process can access it: the memory behind
\* the buffer is either mapped (it holds other data) or not mapped (the
\* buffer ends at the end of a page); an access outside the domain faults
Buf(p, n, mapped) == IF mapped THEN Mem(p, n) ELSE [x \in Range(0, n) |-> Val(p, x)]

\* the predefined macros that compile a tier in
TierMacros == {"__AVX512F__", "__AVX2__", "__AVX__", "__SSE4_2__", "__ARM_NEON"}

\* a CPU that answers no query: leaves 1 and 7 are unavailable, there are no
\* extended leaves; raw is the 48 bytes of leaves 0x80000002..0x80000004 and
\* max_ext is the highest extended leaf, counted from 0x80000000
NoCpu == [ok1 |-> FALSE, ok7 |-> FALSE, eax1 |-> 0, ebx1 |-> 0, ecx1 |-> 0,
          edx1 |-> 0, ebx7 |-> 0, ecx7 |-> 0, edx7 |-> 0,
          max_ext |-> 0, raw |-> [x \in 1..48 |-> "NUL"]]

\* ------------------------------------------- simd_kernels.cpp: tier kernels
\* indices touched by `for (i = 0; i < n; i += W) { load/store W lanes at i }`
VecLoopIdx(n, W) == UNION {Range(i, i + W) : i \in {s \in Range(0, n) : s % W = 0}}

\* indices touched by `for (i = 0; i < n; ++i)`
ScalarLoopIdx(n) == Range(0, n)

\* one elementwise kernel: out[x] = f[x] at every touched index x
Elementwise(out, idx, f) ==
    [c     |-> [x \in DOMAIN out |-> IF x \in idx THEN f[x] ELSE out[x]],
     rd    |-> idx,
     wr    |-> idx,
     fault |-> FALSE]

\* the lanes of the iterations that complete: an unaligned W-lane load or
\* store that reaches outside the accessible memory dom faults as a whole
\* and ends the loop
VecDoneIdx(n, W, dom) ==
    LET starts == {s \in Range(0, n) : s % W = 0}
        done == {s \in starts : \A j \in starts : j <= s => Range(j, j + W) \subseteq dom}
    IN UNION {Range(i, i + W) : i \in done}

\* the vector loop: r is the effect of its completed iterations
VecLoop(r, n, W) ==
    [c     |-> r.c,
     rd    |-> VecLoopIdx(n, W),
     wr    |-> r.wr,
     fault |-> r.wr # VecLoopIdx(n, W)]

matrix_mult_vec(a, b, c, n, W) ==
    LET idx == VecDoneIdx(n, W, DOMAIN c)
    IN VecLoop(Elementwise(c, idx, [x \in idx |-> a[x] * b[x]]), n, W)

matrix_add_vec(a, b, c, n, W) ==
    LET idx == VecDoneIdx(n, W, DOMAIN c)
    IN VecLoop(Elementwise(c, idx, [x \in idx |-> a[x] + b[x]]), n, W)

vector_scale_vec(vec, scalar, n, W) ==
    LET idx == VecDoneIdx(n, W, DOMAIN vec)
    IN VecLoop(Elementwise(vec, idx, [x \in idx |-> vec[x] * scalar]), n, W)

fma_vec(a, b, c, result, n, W) ==
    LET idx == VecDoneIdx(n, W, DOMAIN result)
    IN VecLoop(Elementwise(result, idx, [x \in idx |-> a[x] * b[x] + c[x]]), n, W)

matrix_mult_avx512(a, b, c, n) == matrix_mult_vec(a, b, c, n, 16)
matrix_add_avx512(a, b, c, n) == matrix_add_vec(a, b, c, n, 16)
vector_scale_avx512(vec, scalar, n) == vector_scale_vec(vec, scalar, n, 16)
fma_avx512(a, b, c, result, n) == fma_vec(a, b, c, result, n, 16)

matrix_mult_avx2(a, b, c, n) == matrix_mult_vec(a, b, c, n, 8)
matrix_add_avx2(a, b, c, n) == matrix_add_vec(a, b, c, n, 8)
vector_scale_avx2(vec, scalar, n) == vector_scale_vec(vec, scalar, n, 8)
fma_avx2(a, b, c, result, n) == fma_vec(a, b, c, result, n, 8)

matrix_mult_avx(a, b, c, n) == matrix_mult_vec(a, b, c, n, 8)
matrix_add_avx(a, b, c, n) == matrix_add_vec(a, b, c, n, 8)
vector_scale_avx(vec, scalar, n) == vector_scale_vec(vec, scalar, n, 8)

matrix_mult_sse42(a, b, c, n) == matrix_mult_vec(a, b, c, n, 4)
matrix_add_sse42(a, b, c, n) == matrix_add_vec(a, b, c, n, 4)
vector_scale_sse42(vec, scalar, n) == vector_scale_vec(vec, scalar, n, 4)

matrix_mult_neon(a, b, c, n) == matrix_mult_vec(a, b, c, n, 4)
matrix_add_neon(a, b, c, n) == matrix_add_vec(a, b, c, n, 4)
vector_scale_neon(vec, scalar, n) == vector_scale_vec(vec, scalar, n, 4)
fma_neon(a, b, c, result, n) == fma_vec(a, b, c, result, n, 4)

matrix_mult_baseline(a, b, c, n) ==
    LET idx == ScalarLoopIdx(n) IN Elementwise(c, idx, [x \in idx |-> a[x] * b[x]])

matrix_add_baseline(a, b, c, n) ==
    LET idx == ScalarLoopIdx(n) IN Elementwise(c, idx, [x \in idx |-> a[x] + b[x]])

vector_scale_baseline(vec, scalar, n) ==
    LET idx == ScalarLoopIdx(n) IN Elementwise(vec, idx, [x \in idx |-> vec[x] * scalar])

fma_baseline(a, b, c, result, n) ==
    LET idx == ScalarLoopIdx(n) IN Elementwise(result, idx, [x \in idx |-> a[x] * b[x] + c[x]])

SimdTiers == {"avx512", "avx2", "avx", "sse42", "neon"}
SimdOps == {"matrix_mult", "matrix_add", "vector_scale", "fma"}

\* the #ifdef that guards the kernels of a tier
TierCompiled(tier, m) ==
    CASE tier = "avx512"   -> "__AVX512F__" \in m
      [] tier = "avx2"     -> "__AVX2__" \in m
      [] tier = "avx"      -> "__AVX__" \in m /\ "__AVX2__" \notin m
      [] tier = "sse42"    -> "__SSE4_2__" \in m
      [] tier = "neon"     -> "__ARM_NEON" \in m
      [] tier = "baseline" -> TRUE

\* the kernels that exist: there is no fma_avx and no fma_sse42
KernelExists(op, tier) == ~(op = "fma" /\ tier \in {"avx", "sse42"})

matrix_mult_of(tier, a, b, c, n) ==
    CASE tier = "avx512"   -> matrix_mult_avx512(a, b, c, n)
      [] tier = "avx2"     -> matrix_mult_avx2(a, b, c, n)
      [] tier = "avx"      -> matrix_mult_avx(a, b, c, n)
      [] tier = "sse42"    -> matrix_mult_sse42(a, b, c, n)
      [] tier = "neon"     -> matrix_mult_neon(a, b, c, n)
      [] tier = "baseline" -> matrix_mult_baseline(a, b, c, n)

matrix_add_of(tier, a, b, c, n) ==
    CASE tier = "avx512"   -> matrix_add_avx512(a, b, c, n)
      [] tier = "avx2"     -> matrix_add_avx2(a, b, c, n)
      [] tier = "avx"      -> matrix_add_avx(a, b, c, n)
      [] tier = "sse42"    -> matrix_add_sse42(a, b, c, n)
      [] tier = "neon"     -> matrix_add_neon(a, b, c, n)
      [] tier = "baseline" -> matrix_add_baseline(a, b, c, n)

vector_scale_of(tier, vec, scalar, n) ==
    CASE tier = "avx512"   -> vector_scale_avx512(vec, scalar, n)
      [] tier = "avx2"     -> vector_scale_avx2(vec, scalar, n)
      [] tier = "avx"      -> vector_scale_avx(vec, scalar, n)
      [] tier = "sse42"    -> vector_scale_sse42(vec, scalar, n)
      [] tier = "neon"     -> vector_scale_neon(vec, scalar, n)
      [] tier = "baseline" -> vector_scale_baseline(vec, scalar, n)

fma_of(tier, a, b, c, result, n) ==
    CASE tier = "avx512"   -> fma_avx512(a, b, c, result, n)
      [] tier = "avx2"     -> fma_avx2(a, b, c, result, n)
      [] tier = "neon"     -> fma_neon(a, b, c, result, n)
      [] tier = "baseline" -> fma_baseline(a, b, c, result, n)

\* a caller runs kernel op of a tier on buffers of n elements; the buffers
\* hold patterns p and p+1, the output buffer holds pattern p+2 (for
\* vector_scale the vector is scaled in place by p+1)
SimdCall(op, tier, n, p, mapped) ==
    LET a == Buf(p, n, mapped)
        b == Buf(p + 1, n, mapped)
        c == Buf(p + 2, n, mapped)
        r == CASE op = "matrix_mult"  -> matrix_mult_of(tier, a, b, c, n)
               [] op = "matrix_add"   -> matrix_add_of(tier, a, b, c, n)
               [] op = "vector_scale" -> vector_scale_of(tier, a, p + 1, n)
               [] op = "fma"          -> fma_of(tier, a, b, c, c, n)
    IN [fn |-> op, tier |-> tier, n |-> n, p |-> p, mapped |-> mapped,
        before |-> IF op = "vector_scale" THEN a ELSE c,
        out |-> r.c, rd |-> r.rd, wr |-> r.wr, fault |-> r.fault]

CallTierKernel ==
    /\ args.tier \in SimdTiers
    /\ KernelExists(args.op, args.tier)
    /\ TierCompiled(args.tier, macros)
    /\ simd' = SimdCall(args.op, args.tier, args.n, args.p, args.mapped)
    /\ UNCHANGED <<macros, cpu, args, disp, mm, asmk, detector, prober>>

CallBaselineKernel ==
    /\ args.tier = "baseline"
    /\ simd' = SimdCall(args.op, "baseline", args.n, args.p, args.mapped)
    /\ UNCHANGED <<macros, cpu, args, disp, mm, asmk, detector, prober>>

\* --------------------------------- simd_kernels.cpp: 2-D matrix multiply
\* a matrix buffer of `size` elements holding pattern p
Matrix(p, size) == [x \in Range(0, size) |-> Val(p, x)]

\* what a read of element idx returns; a read outside the buffer has no
\* defined value, and no kernel of this file makes one
Load(buf, idx) == buf[idx]

\* for (k = k0; k < k_end; ++k) sum += A[ii*cols_a + k] * B[k*cols_b + jj];
RECURSIVE SumK(_, _, _, _, _, _, _, _, _)
SumK(A, B, ii, jj, cols_a, cols_b, k, k_end, sum) ==
    IF k < k_end
    THEN SumK(A, B, ii, jj, cols_a, cols_b, k + 1, k_end,
              sum + Load(A, ii * cols_a + k) * Load(B, k * cols_b + jj))
    ELSE sum

\* the naive triple loop; rdA/rdB/wr are the indices read and written
matrix_multiply(A, B, C, rows_a, cols_a, cols_b) ==
    LET cells == {<<i, j>> : i \in Range(0, rows_a), j \in Range(0, cols_b)}
        wr == {c[1] * cols_b + c[2] : c \in cells}
    IN [C   |-> [idx \in DOMAIN C |->
                   IF idx \in wr
                   THEN SumK(A, B, idx \div cols_b, idx % cols_b,
                             cols_a, cols_b, 0, cols_a, 0)
                   ELSE C[idx]],
        wr  |-> wr,
        rdA |-> IF cols_b = 0 THEN {}
                ELSE {i * cols_a + k : i \in Range(0, rows_a), k \in Range(0, cols_a)},
        rdB |-> IF rows_a = 0 THEN {}
                ELSE {k * cols_b + j : k \in Range(0, cols_a), j \in Range(0, cols_b)},
        rdC |-> {}]

block_size == 32

\* (s + block_size < n) ? s + block_size : n
BlockEnd(s, n) == IF s + block_size < n THEN s + block_size ELSE n

RECURSIVE BlockSeq(_, _, _, _, _, _)

\* mutation of BlockSeq: the row end of a block is not clipped to rows_a
BlockSeq_RowsNotClipped(i, j, k, rows_a, cols_a, cols_b) ==
    IF ~(i < rows_a) THEN <<>>
    ELSE IF ~(j < cols_b) THEN BlockSeq(i + block_size, 0, 0, rows_a, cols_a, cols_b)
    ELSE IF ~(k < cols_a) THEN BlockSeq(i, j + block_size, 0, rows_a, cols_a, cols_b)
    ELSE <<[i |-> i, i_end |-> i + block_size,
            j |-> j, j_end |-> BlockEnd(j, cols_b),
            k |-> k, k_end |-> BlockEnd(k, cols_a)]>>
         \o BlockSeq(i, j, k + block_size, rows_a, cols_a, cols_b)

\* the blocks in the order the three block loops visit them
BlockSeq(i, j, k, rows_a, cols_a, cols_b) ==
    IF ~(i < rows_a) THEN <<>>
    ELSE IF ~(j < cols_b) THEN BlockSeq(i + block_size, 0, 0, rows_a, cols_a, cols_b)
    ELSE IF ~(k < cols_a) THEN BlockSeq(i, j + block_size, 0, rows_a, cols_a, cols_b)
    ELSE <<[i |-> i, i_end |-> BlockEnd(i, rows_a),
            j |-> j, j_end |-> BlockEnd(j, cols_b),
            k |-> k, k_end |-> BlockEnd(k, cols_a)]>>
         \o BlockSeq(i, j, k + block_size, rows_a, cols_a, cols_b)

\* mutation of ApplyBlock: the sum starts at 0 instead of the C the earlier
\* k-blocks left
ApplyBlock_NoAccumulate(A, B, C, blk, cols_a, cols_b) ==
    [idx \in DOMAIN C |->
        IF /\ idx \div cols_b \in Range(blk.i, blk.i_end)
           /\ idx % cols_b \in Range(blk.j, blk.j_end)
        THEN SumK(A, B, idx \div cols_b, idx % cols_b, cols_a, cols_b,
                  blk.k, blk.k_end, 0)
        ELSE C[idx]]

\* the ii/jj/kk loops of one block: every cell of the block loads C, adds
\* the block's products in order of kk and stores C
ApplyBlock(A, B, C, blk, cols_a, cols_b) ==
    [idx \in DOMAIN C |->
        IF /\ idx \div cols_b \in Range(blk.i, blk.i_end)
           /\ idx % cols_b \in Range(blk.j, blk.j_end)
        THEN SumK(A, B, idx \div cols_b, idx % cols_b, cols_a, cols_b,
                  blk.k, blk.k_end, C[idx])
        ELSE C[idx]]

RECURSIVE RunBlocks(_, _, _, _, _, _)
RunBlocks(A, B, C, blocks, cols_a, cols_b) ==
    IF blocks = <<>> THEN C
    ELSE RunBlocks(A, B, ApplyBlock(A, B, C, Head(blocks), cols_a, cols_b),
                   Tail(blocks), cols_a, cols_b)

\* indices of A, B and C that the loops of a block touch
BlockA(blk, cols_a) ==
    {ii * cols_a + kk : ii \in Range(blk.i, blk.i_end), kk \in Range(blk.k, blk.k_end)}
BlockB(blk, cols_b) ==
    {kk * cols_b + jj : kk \in Range(blk.k, blk.k_end), jj \in Range(blk.j, blk.j_end)}
BlockC(blk, cols_b) ==
    {ii * cols_b + jj : ii \in Range(blk.i, blk.i_end), jj \in Range(blk.j, blk.j_end)}

SeqRange(s) == {s[x] : x \in DOMAIN s}

\* mutation of matrix_multiply_optimized: C is not zeroed before the block
\* loops accumulate into it
matrix_multiply_optimized_NoMemset(A, B, C, rows_a, cols_a, cols_b, simd_type) ==
    LET zeroed == Range(0, rows_a * cols_b)
        blocks == BlockSeq(0, 0, 0, rows_a, cols_a, cols_b)
    IN [C      |-> RunBlocks(A, B, C, blocks, cols_a, cols_b),
        blocks |-> blocks,
        wr     |-> zeroed \cup UNION {BlockC(blk, cols_b) : blk \in SeqRange(blocks)},
        rdA    |-> UNION {BlockA(blk, cols_a) : blk \in SeqRange(blocks)},
        rdB    |-> UNION {BlockB(blk, cols_b) : blk \in SeqRange(blocks)},
        rdC    |-> UNION {BlockC(blk, cols_b) : blk \in SeqRange(blocks)},
        impl   |-> "scalar"]

\* memset(C, 0, rows_a*cols_b*sizeof(float)), then the block loops; the
\* simd_type argument is not read: every block is computed with scalar code
matrix_multiply_optimized(A, B, C, rows_a, cols_a, cols_b, simd_type) ==
    LET zeroed == Range(0, rows_a * cols_b)
        C0     == [idx \in DOMAIN C |-> IF idx \in zeroed THEN 0 ELSE C[idx]]
        blocks == BlockSeq(0, 0, 0, rows_a, cols_a, cols_b)
    IN [C      |-> RunBlocks(A, B, C0, blocks, cols_a, cols_b),
        blocks |-> blocks,
        wr     |-> zeroed \cup UNION {BlockC(blk, cols_b) : blk \in SeqRange(blocks)},
        rdA    |-> UNION {BlockA(blk, cols_a) : blk \in SeqRange(blocks)},
        rdB    |-> UNION {BlockB(blk, cols_b) : blk \in SeqRange(blocks)},
        rdC    |-> UNION {BlockC(blk, cols_b) : blk \in SeqRange(blocks)},
        impl   |-> "scalar"]

\* ------------------------------------ pipeline_opt.c: capability detection
\* GCC/Clang: __get_cpuid(1) fails -> 0; __get_cpuid_count(7, 0, &eax, &ebx,
\* &ecx, &edx) stores the four registers of leaf 7 when it succeeds, so the
\* tests that follow read ecx and edx of leaf 7; when it fails, ecx and edx
\* still hold leaf 1 and ebx = 0.
\* MSVC: ecx and edx are copied from leaf 1 before leaf 7 is queried, and
\* the __cpuid answers are used as they come.
detect_cpu_features(c, m) ==
    LET msvc == "_MSC_VER" \in m
        ecx  == IF ~msvc /\ c.ok7 THEN c.ecx7 ELSE c.ecx1
        edx  == IF ~msvc /\ c.ok7 THEN c.edx7 ELSE c.edx1
        ebx  == IF msvc \/ c.ok7 THEN c.ebx7 ELSE 0
    IN IF ~msvc /\ ~c.ok1 THEN 0
       ELSE (IF Bit(edx, 25) THEN 1 ELSE 0)
          + (IF Bit(edx, 26) THEN 2 ELSE 0)
          + (IF Bit(ecx, 0) THEN 4 ELSE 0)
          + (IF Bit(ecx, 9) THEN 8 ELSE 0)
          + (IF Bit(ecx, 19) THEN 16 ELSE 0)
          + (IF Bit(ecx, 20) THEN 32 ELSE 0)
          + (IF Bit(ecx, 28) THEN 64 ELSE 0)
          + (IF Bit(ebx, 5) THEN 128 ELSE 0)

\* the flag of the feature word that reports a tier; the feature word has no
\* flag for AVX-512 or NEON
TierReported(tier, features) ==
    CASE tier = "avx2"     -> Bit(features, 7)
      [] tier = "avx"      -> Bit(features, 6)
      [] tier = "sse42"    -> Bit(features, 5)
      [] tier = "baseline" -> TRUE
      [] OTHER             -> FALSE

\* --------------------------------------- simd_kernels.cpp: the dispatcher
NullHint == [isnull |-> TRUE, s |-> ""]
StrHint(s) == [isnull |-> FALSE, s |-> s]

\* mutation of AutoSelect: __AVX__ is tested before __AVX2__
AutoSelect_AvxBeforeAvx2(m) ==
    IF "__AVX512F__" \in m THEN [fn |-> "matrix_multiply_optimized", simd_type |-> "avx512"]
    ELSE IF "__AVX__" \in m THEN [fn |-> "matrix_multiply_optimized", simd_type |-> "avx"]
    ELSE IF "__AVX2__" \in m THEN [fn |-> "matrix_multiply_optimized", simd_type |-> "avx2"]
    ELSE IF "__SSE4_2__" \in m THEN [fn |-> "matrix_multiply_optimized", simd_type |-> "sse42"]
    ELSE IF "__ARM_NEON" \in m THEN [fn |-> "matrix_multiply_optimized", simd_type |-> "neon"]
    ELSE [fn |-> "matrix_multiply", simd_type |-> "n/a"]

\* the #if / #elif chain of the auto-detection branch: the kernel it calls
\* and the simd_type it passes
AutoSelect(m) ==
    IF "__AVX512F__" \in m THEN [fn |-> "matrix_multiply_optimized", simd_type |-> "avx512"]
    ELSE IF "__AVX2__" \in m THEN [fn |-> "matrix_multiply_optimized", simd_type |-> "avx2"]
    ELSE IF "__AVX__" \in m THEN [fn |-> "matrix_multiply_optimized", simd_type |-> "avx"]
    ELSE IF "__SSE4_2__" \in m THEN [fn |-> "matrix_multiply_optimized", simd_type |-> "sse42"]
    ELSE IF "__ARM_NEON" \in m THEN [fn |-> "matrix_multiply_optimized", simd_type |-> "neon"]
    ELSE [fn |-> "matrix_multiply", simd_type |-> "n/a"]

\* run one kernel and log the call
RunKernel(sel, A, B, C, rows_a, cols_a, cols_b) ==
    LET r == IF sel.fn = "matrix_multiply_optimized"
             THEN matrix_multiply_optimized(A, B, C, rows_a, cols_a, cols_b, sel.simd_type)
             ELSE matrix_multiply(A, B, C, rows_a, cols_a, cols_b)
    IN [kernels |-> <<[fn |-> sel.fn, simd_type |-> sel.simd_type,
                       impl |-> IF sel.fn = "matrix_multiply_optimized"
                                THEN r.impl ELSE "scalar"]>>,
        C |-> r.C, wr |-> r.wr]

\* mutation of dispatch_matrix_multiply: a hint that names no tier runs no
\* kernel
dispatch_matrix_multiply_UnknownRunsNothing(A, B, C, rows_a, cols_a, cols_b, simd_type, m) ==
    IF ~simd_type.isnull
    THEN IF simd_type.s \in {"avx512", "avx2", "avx", "sse42", "neon"}
         THEN RunKernel([fn |-> "matrix_multiply_optimized", simd_type |-> simd_type.s],
                        A, B, C, rows_a, cols_a, cols_b)
         ELSE [kernels |-> <<>>, C |-> C, wr |-> {}]
    ELSE RunKernel(AutoSelect(m), A, B, C, rows_a, cols_a, cols_b)

dispatch_matrix_multiply(A, B, C, rows_a, cols_a, cols_b, simd_type, m) ==
    IF ~simd_type.isnull
    THEN RunKernel([fn |-> "matrix_multiply_optimized", simd_type |-> simd_type.s],
                   A, B, C, rows_a, cols_a, cols_b)
    ELSE RunKernel(AutoSelect(m), A, B, C, rows_a, cols_a, cols_b)

MaxDispDim == 2     \* largest matrix dimension passed to the dispatcher

HintSet == {NullHint} \cup
           {StrHint(s) : s \in {"", "avx512", "avx2", "avx", "sse42", "neon",
                                "baseline", "bogus"}}

\* CPUs the dispatcher runs on: one without CPUID leaves; CPUs that answer
\* leaf 1 only, with and without SSE4.2 and AVX (ECX bits 20, 28); CPUs
\* with SSE4.2 and AVX that answer leaf 7 too, with and without AVX2 (EBX
\* bit 5) and bits 20, 28 in ECX of leaf 7
DispCpus ==
    {NoCpu}
    \cup {[NoCpu EXCEPT !.ok1 = TRUE, !.ecx1 = e] : e \in {0, Pow2(20) + Pow2(28)}}
    \cup {[NoCpu EXCEPT !.ok1 = TRUE, !.ok7 = TRUE, !.ecx1 = Pow2(20) + Pow2(28),
                        !.ecx7 = e7, !.ebx7 = b] :
             e7 \in {0, Pow2(20) + Pow2(28)}, b \in {0, Pow2(5)}}

DispatchCall ==
    LET A == Matrix(args.p, args.M * args.K)
        B == Matrix(args.p + 1, args.K * args.N)
        C == Matrix(args.p + 2, args.M * args.N)
        r == dispatch_matrix_multiply(A, B, C, args.M, args.K, args.N,
                                      args.hint, macros)
    IN /\ disp' = [fn |-> "dispatch_matrix_multiply", hint |-> args.hint,
                   M |-> args.M, K |-> args.K, N |-> args.N, p |-> args.p,
                   kernels |-> r.kernels, C |-> r.C, wr |-> r.wr]
       /\ UNCHANGED <<macros, cpu, args, simd, mm, asmk, detector, prober>>

InitDispatch ==
    /\ macros \in SUBSET TierMacros
    /\ cpu \in DispCpus
    /\ args \in [hint : HintSet, M : 0..MaxDispDim, K : 0..MaxDispDim,
                 N : 0..MaxDispDim, p : 1..MaxPat]
    /\ simd = Idle
    /\ disp = Idle
    /\ mm = Idle
    /\ asmk = Idle
    /\ DetectorIdle
    /\ ProberIdle

NextDispatch == DispatchCall

SpecDispatch == InitDispatch /\ [][NextDispatch]_vars

Dispatched == disp.fn = "dispatch_matrix_multiply"

\* the tier the dispatcher settled on
SelectedTier ==
    IF disp.kernels[1].fn = "matrix_multiply" THEN "baseline"
    ELSE disp.kernels[1].simd_type

\* C2: with an explicit hint naming a compiled-in tier, the kernel that runs
\* is that tier's implementation (so two different hints run two different
\* implementations).
C2_HintBindsTierImplementation ==
    (/\ Dispatched
     /\ ~disp.hint.isnull
     /\ disp.hint.s \in SimdTiers
     /\ TierCompiled(disp.hint.s, macros))
    => /\ Len(disp.kernels) = 1
       /\ disp.kernels[1].impl = disp.hint.s

\* C3: a null hint and an empty-string hint both take the auto-selection
\* path: the kernel called is the one auto-selection picks.
C3_NullAndEmptyAutoSelect ==
    (Dispatched /\ (disp.hint.isnull \/ disp.hint.s = ""))
    => /\ Len(disp.kernels) = 1
       /\ disp.kernels[1].fn = AutoSelect(macros).fn
       /\ disp.kernels[1].simd_type = AutoSelect(macros).simd_type

\* C4: the tier chosen by auto-selection is compiled in and reported as
\* supported by the running CPU, and is the baseline only if no higher tier
\* is both compiled in and reported supported.
C4_AutoTierCompiledAndSupported ==
    (Dispatched /\ disp.hint.isnull)
    => LET f == detect_cpu_features(cpu, macros)
       IN /\ TierCompiled(SelectedTier, macros)
          /\ TierReported(SelectedTier, f)
          /\ SelectedTier = "baseline" =>
                ~\E u \in SimdTiers : TierCompiled(u, macros) /\ TierReported(u, f)

\* the fixed priority order of auto-selection and the macro that makes a
\* tier available to it
TierOrder == <<"avx512", "avx2", "avx", "sse42", "neon", "baseline">>

TierAvailable(tier, m) ==
    CASE tier = "avx512"   -> "__AVX512F__" \in m
      [] tier = "avx2"     -> "__AVX2__" \in m
      [] tier = "avx"      -> "__AVX__" \in m
      [] tier = "sse42"    -> "__SSE4_2__" \in m
      [] tier = "neon"     -> "__ARM_NEON" \in m
      [] tier = "baseline" -> TRUE

\* C5: with no variant requested exactly one tier is selected, the first
\* available one in the order AVX-512 > AVX2 > AVX > SSE4.2 > NEON > scalar
\* baseline: every tier before the selected one is unavailable.
C5_AutoSelectsFirstAvailable ==
    (Dispatched /\ disp.hint.isnull)
    => /\ Len(disp.kernels) = 1
       /\ \E x \in DOMAIN TierOrder :
            /\ TierOrder[x] = SelectedTier
            /\ TierAvailable(TierOrder[x], macros)
            /\ \A y \in 1..(x - 1) : ~TierAvailable(TierOrder[y], macros)

\* an AVX tier is selected past an SSE4.2 tier that is available too
C5_Witness ==
    /\ Dispatched
    /\ disp.hint.isnull
    /\ SelectedTier = "avx"
    /\ "__SSE4_2__" \in macros
    /\ "__ARM_NEON" \in macros

\* C6: for every build and every hint (null, empty, known, unknown) exactly
\* one matrix-multiply kernel is invoked and it writes all M*N elements of C.
C6_ExactlyOneKernelWritesAllOfC ==
    Dispatched
    => /\ Len(disp.kernels) = 1
       /\ disp.kernels[1].fn \in {"matrix_multiply", "matrix_multiply_optimized"}
       /\ disp.wr = Range(0, disp.M * disp.N)
       /\ DOMAIN disp.C = Range(0, disp.M * disp.N)

\* an unknown hint on a build with no tier compiled in, on a non-empty C
C6_Witness ==
    /\ Dispatched
    /\ macros = {}
    /\ disp.hint = StrHint("bogus")
    /\ disp.M * disp.N > 0
    /\ Len(disp.kernels) = 1

\* ------------------------------ blocked against naive matrix multiply
MaxDim == 33        \* largest matrix dimension: one more than the block extent

BlockDims == {0, 1, block_size \div 2 + 1, block_size, MaxDim}

\* the caller's buffers: A is M x K, B is K x N, C is M x N and holds
\* arbitrary data before the call
ArgA == Matrix(args.p, args.M * args.K)
ArgB == Matrix(args.p + 1, args.K * args.N)
ArgC == Matrix(args.p + 2, args.M * args.N)

CallOptimized ==
    /\ mm.opt = Idle
    /\ mm' = [mm EXCEPT !.opt =
                 [fn |-> "matrix_multiply_optimized"] @@
                 matrix_multiply_optimized(ArgA, ArgB, ArgC, args.M, args.K, args.N, "")]
    /\ UNCHANGED <<macros, cpu, args, simd, disp, asmk, detector, prober>>

CallNaive ==
    /\ mm.naive = Idle
    /\ mm' = [mm EXCEPT !.naive =
                 [fn |-> "matrix_multiply"] @@
                 matrix_multiply(ArgA, ArgB, ArgC, args.M, args.K, args.N)]
    /\ UNCHANGED <<macros, cpu, args, simd, disp, asmk, detector, prober>>

InitBlocked ==
    /\ macros = {}
    /\ cpu = NoCpu
    /\ args \in [M : BlockDims, K : BlockDims, N : BlockDims, p : 1..MaxPat]
    /\ simd = Idle
    /\ disp = Idle
    /\ mm = [opt |-> Idle, naive |-> Idle]
    /\ asmk = Idle
    /\ DetectorIdle
    /\ ProberIdle

NextBlocked == CallOptimized \/ CallNaive

SpecBlocked == InitBlocked /\ [][NextBlocked]_vars

OptDone == mm.opt.fn = "matrix_multiply_optimized"
NaiveDone == mm.naive.fn = "matrix_multiply"

\* the number of times the block loops add the product A[i,k]*B[k,j]
Accumulated(i, j, k) ==
    Cardinality({x \in DOMAIN mm.opt.blocks :
                    /\ i \in Range(mm.opt.blocks[x].i, mm.opt.blocks[x].i_end)
                    /\ j \in Range(mm.opt.blocks[x].j, mm.opt.blocks[x].j_end)
                    /\ k \in Range(mm.opt.blocks[x].k, mm.opt.blocks[x].k_end)})

\* C7: matrix_multiply_optimized leaves in C the same matrix as the naive
\* matrix_multiply, for dimensions below, equal to and not a multiple of the
\* block extent, and every product A[i,k]*B[k,j] is accumulated exactly once.
C7_BlockedEqualsNaive ==
    (OptDone /\ NaiveDone)
    => /\ mm.opt.C = mm.naive.C
       /\ DOMAIN mm.opt.C = Range(0, args.M * args.N)
       /\ \A i \in Range(0, args.M), j \in Range(0, args.N), k \in Range(0, args.K) :
             Accumulated(i, j, k) = 1

\* both kernels ran on matrices with an edge block in every dimension
C7_Witness ==
    /\ OptDone
    /\ NaiveDone
    /\ args.M = MaxDim /\ args.K = MaxDim /\ args.N = MaxDim
    /\ Len(mm.opt.blocks) = 8
    /\ \E idx \in DOMAIN mm.opt.C : mm.opt.C[idx] # 0

\* C8: every block's index ranges are clipped to the matrix boundary: A is
\* read only below M*K, B only below K*N, C is read and written only below
\* M*N.
C8_BlocksClipped ==
    OptDone
    => /\ \A x \in DOMAIN mm.opt.blocks :
             /\ mm.opt.blocks[x].i_end <= args.M
             /\ mm.opt.blocks[x].j_end <= args.N
             /\ mm.opt.blocks[x].k_end <= args.K
       /\ mm.opt.rdA \subseteq Range(0, args.M * args.K)
       /\ mm.opt.rdB \subseteq Range(0, args.K * args.N)
       /\ mm.opt.rdC \subseteq Range(0, args.M * args.N)
       /\ mm.opt.wr \subseteq Range(0, args.M * args.N)

\* a clipped edge block was computed: it ends at the matrix boundary in
\* every dimension, short of a full block extent
C8_Witness ==
    /\ OptDone
    /\ \E x \in DOMAIN mm.opt.blocks :
          /\ mm.opt.blocks[x].i = block_size /\ mm.opt.blocks[x].i_end = MaxDim
          /\ mm.opt.blocks[x].j = block_size /\ mm.opt.blocks[x].j_end = MaxDim
          /\ mm.opt.blocks[x].k = block_size /\ mm.opt.blocks[x].k_end = MaxDim

\* -------------------------------- assembly_kernels.h: platform detection
PLATFORM_WINDOWS(m) == "_WIN32" \in m \/ "_WIN64" \in m
PLATFORM_MACOS(m) == ~PLATFORM_WINDOWS(m) /\ ("__APPLE__" \in m \/ "__MACH__" \in m)
PLATFORM_LINUX(m) == ~PLATFORM_WINDOWS(m) /\ ~PLATFORM_MACOS(m) /\ "__linux__" \in m
PLATFORM_ANDROID(m) ==
    ~PLATFORM_WINDOWS(m) /\ ~PLATFORM_MACOS(m) /\ ~PLATFORM_LINUX(m) /\ "__ANDROID__" \in m

ARCH_X86_64(m) == "__x86_64__" \in m \/ "_M_X64" \in m
ARCH_X86(m) == ~ARCH_X86_64(m) /\ ("__i386" \in m \/ "_M_IX86" \in m)
ARCH_ARM(m) == ~ARCH_X86_64(m) /\ ~ARCH_X86(m) /\ ("__arm__" \in m \/ "_M_ARM" \in m)
ARCH_ARM64(m) == ~ARCH_X86_64(m) /\ ~ARCH_X86(m) /\ ~ARCH_ARM(m) /\ "__aarch64__" \in m

\* ------------------------------------ assembly_kernels.cpp: asm_* kernels
\* the #if chain of asm_matrix_add, asm_vector_dot and asm_vector_scale
AsmFloatBranch(m) ==
    IF PLATFORM_MACOS(m) /\ "__APPLE__" \in m THEN "accelerate"
    ELSE IF ARCH_X86_64(m) /\ "__AVX2__" \in m THEN "avx2"
    ELSE IF ARCH_X86_64(m) /\ "__SSE4_2__" \in m THEN "sse42"
    ELSE IF ARCH_ARM(m) \/ ARCH_ARM64(m)
         THEN (IF "__ARM_NEON" \in m THEN "neon" ELSE "scalar")
    ELSE "scalar"

\* the #if chain of asm_vector_bitwise_or and asm_vector_bitwise_and
AsmIntBranch(m) ==
    IF ARCH_X86_64(m) /\ "__AVX2__" \in m THEN "avx2"
    ELSE IF ARCH_X86_64(m) /\ "__SSE4_2__" \in m THEN "sse42"
    ELSE IF ARCH_ARM(m) \/ ARCH_ARM64(m)
         THEN (IF "__ARM_NEON" \in m THEN "neon" ELSE "scalar")
    ELSE "scalar"

\* lanes per chunk of a branch; the scalar branch has no chunk loop
AsmWidth(branch) ==
    CASE branch = "avx2"  -> 8
      [] branch = "sse42" -> 4
      [] branch = "neon"  -> 4
      [] OTHER            -> 0

\* mutation of ChunkStarts: the chunk loop runs while i < size
RECURSIVE ChunkStarts_WhileBelowSize(_, _, _)
ChunkStarts_WhileBelowSize(i, size, W) ==
    IF W > 0 /\ i < size THEN <<i>> \o ChunkStarts_WhileBelowSize(i + W, size, W) ELSE <<>>

\* for (; i <= size - W; i += W): the values of i at which a chunk is done
RECURSIVE ChunkStarts(_, _, _)
ChunkStarts(i, size, W) ==
    IF W > 0 /\ i <= size - W THEN <<i>> \o ChunkStarts(i + W, size, W) ELSE <<>>

\* the value of i when the chunk loop ends
ChunkLoopEnd(chunks, W) == IF chunks = <<>> THEN 0 ELSE chunks[Len(chunks)] + W

\* for (; i < size; i++): the indices of the scalar remainder loop
Remainder(i, size) == Range(i, size)

\* chunk loop plus remainder loop storing f[x] at every index x they reach;
\* f holds the value the lane or scalar operation computes at index x
AsmElementwise(C, size, W, f) ==
    LET chunks  == ChunkStarts(0, size, W)
        rem     == Remainder(ChunkLoopEnd(chunks, W), size)
        touched == UNION {Range(chunks[x], chunks[x] + W) : x \in DOMAIN chunks} \cup rem
    IN [c      |-> [x \in DOMAIN C |-> IF x \in touched THEN f[x] ELSE C[x]],
        chunks |-> chunks, W |-> W, rem |-> rem]

\* a | b and a & b on two's-complement ints
RECURSIVE BitOr(_, _)
BitOr(a, b) ==
    IF a = 0 THEN b
    ELSE IF b = 0 THEN a
    ELSE IF a = -1 \/ b = -1 THEN -1
    ELSE 2 * BitOr(a \div 2, b \div 2) + (IF a % 2 = 1 \/ b % 2 = 1 THEN 1 ELSE 0)

RECURSIVE BitAnd(_, _)
BitAnd(a, b) ==
    IF a = 0 \/ b = 0 THEN 0
    ELSE IF a = -1 THEN b
    ELSE IF b = -1 THEN a
    ELSE 2 * BitAnd(a \div 2, b \div 2) + (IF a % 2 = 1 /\ b % 2 = 1 THEN 1 ELSE 0)

asm_matrix_add(A, B, C, size, m) ==
    AsmElementwise(C, size, AsmWidth(AsmFloatBranch(m)), [x \in DOMAIN A |-> A[x] + B[x]])

asm_vector_scale(A, B, scalar, size, m) ==
    AsmElementwise(B, size, AsmWidth(AsmFloatBranch(m)), [x \in DOMAIN A |-> A[x] * scalar])

asm_vector_bitwise_or(A, B, C, size, m) ==
    AsmElementwise(C, size, AsmWidth(AsmIntBranch(m)), [x \in DOMAIN A |-> BitOr(A[x], B[x])])

asm_vector_bitwise_and(A, B, C, size, m) ==
    AsmElementwise(C, size, AsmWidth(AsmIntBranch(m)), [x \in DOMAIN A |-> BitAnd(A[x], B[x])])

\* ---- vector registers: functions from lane number to value
Lanes(W) == Range(0, W)
ZeroVec(W) == [l \in Lanes(W) |-> 0]

\* sum = add(sum, mul(load(&A[i]), load(&B[i]))) over the chunks, in order
RECURSIVE AccumulateChunks(_, _, _, _, _)
AccumulateChunks(A, B, chunks, W, sum) ==
    IF chunks = <<>> THEN sum
    ELSE AccumulateChunks(A, B, Tail(chunks), W,
            [l \in Lanes(W) |-> sum[l] + A[Head(chunks) + l] * B[Head(chunks) + l]])

\* x86 intrinsics of the horizontal sums
mm256_extractf128_ps(v, half) == [l \in Lanes(4) |-> v[4 * half + l]]
mm_add_ps(a, b) == [l \in Lanes(4) |-> a[l] + b[l]]
mm_movehl_ps(a, b) == [l \in Lanes(4) |-> IF l < 2 THEN b[l + 2] ELSE a[l]]
mm_shuffle_ps(a, b, imm) ==
    [l \in Lanes(4) |-> IF l < 2 THEN a[(imm \div Pow2(2 * l)) % 4]
                        ELSE b[(imm \div Pow2(2 * l)) % 4]]
mm_add_ss(a, b) == [l \in Lanes(4) |-> IF l = 0 THEN a[0] + b[0] ELSE a[l]]
MM_SHUFFLE(z, y, x, w) == z * 64 + y * 16 + x * 4 + w

\* NEON intrinsics of the horizontal sum
vget_low_f32(v) == [l \in Lanes(2) |-> v[l]]
vget_high_f32(v) == [l \in Lanes(2) |-> v[l + 2]]
vadd_f32(a, b) == [l \in Lanes(2) |-> a[l] + b[l]]
vpadd_f32(a, b) == [l \in Lanes(2) |-> IF l = 0 THEN a[0] + a[1] ELSE b[0] + b[1]]

\* mutation of HorizontalAvx2: the low half is added to itself, the high half
\* of the accumulator is dropped
HorizontalAvx2_LowHalfTwice(sum) ==
    LET sum128 == mm_add_ps(mm256_extractf128_ps(sum, 0), mm256_extractf128_ps(sum, 0))
        sum64  == mm_add_ps(sum128, mm_movehl_ps(sum128, sum128))
        sum32  == mm_add_ss(sum64, mm_shuffle_ps(sum64, sum64, 1))
    IN sum32[0]

HorizontalAvx2(sum) ==
    LET sum128 == mm_add_ps(mm256_extractf128_ps(sum, 0), mm256_extractf128_ps(sum, 1))
        sum64  == mm_add_ps(sum128, mm_movehl_ps(sum128, sum128))
        sum32  == mm_add_ss(sum64, mm_shuffle_ps(sum64, sum64, 1))
    IN sum32[0]

HorizontalSse42(sum) ==
    LET shuf  == mm_shuffle_ps(sum, sum, MM_SHUFFLE(2, 3, 0, 1))
        sums  == mm_add_ps(sum, shuf)
        shuf2 == mm_movehl_ps(shuf, sums)
        sums2 == mm_add_ss(sums, shuf2)
    IN sums2[0]

HorizontalNeon(sum_vec) ==
    LET sum_low  == vadd_f32(vget_low_f32(sum_vec), vget_high_f32(sum_vec))
        sum_low2 == vpadd_f32(sum_low, sum_low)
    IN sum_low2[0]

\* for (; i < size; i++) result += A[i] * B[i];
RECURSIVE DotRemainder(_, _, _, _, _)
DotRemainder(A, B, i, size, result) ==
    IF i < size THEN DotRemainder(A, B, i + 1, size, result + A[i] * B[i])
    ELSE result

asm_vector_dot(A, B, size, m) ==
    LET branch == AsmFloatBranch(m)
        W      == AsmWidth(branch)
        chunks == ChunkStarts(0, size, W)
        sum    == AccumulateChunks(A, B, chunks, W, ZeroVec(W))
        temp   == CASE branch = "avx2"  -> HorizontalAvx2(sum)
                    [] branch = "sse42" -> HorizontalSse42(sum)
                    [] branch = "neon"  -> HorizontalNeon(sum)
                    [] OTHER            -> 0
        i      == ChunkLoopEnd(chunks, W)
    IN [result |-> DotRemainder(A, B, i, size, 0 + temp),
        chunks |-> chunks, W |-> W, rem |-> Remainder(i, size)]

\* builds of assembly_kernels.cpp: an OS, an architecture, vector extensions
AsmBuilds ==
    {os \cup arch \cup ext :
        os \in {{}, {"__linux__"}, {"_WIN32"}, {"__APPLE__", "__MACH__"}},
        arch \in {{"__x86_64__"}, {"__i386"}, {"__arm__"}, {"__aarch64__"}},
        ext \in SUBSET {"__AVX2__", "__SSE4_2__", "__ARM_NEON"}}

AsmElementOps == {"asm_matrix_add", "asm_vector_scale",
                  "asm_vector_bitwise_or", "asm_vector_bitwise_and"}
AsmOps == AsmElementOps \cup {"asm_vector_dot"}

\* the caller's vectors: pattern 1 is A = 1,2,3,.. and B = 5,6,7,..; with
\* hot >= 0, A is 1 at index hot and 0 elsewhere
AsmA == [x \in Range(0, Cap(args.size)) |->
            IF args.hot >= 0 THEN (IF x = args.hot THEN 1 ELSE 0)
            ELSE IF args.p = 1 THEN x + 1 ELSE Val(args.p, x)]
AsmB == [x \in Range(0, Cap(args.size)) |->
            IF args.p = 1 THEN x + 5 ELSE Val(args.p + 1, x)]
AsmC == Mem(args.p + 2, args.size)

AsmDone(op, r, before) ==
    [fn |-> op, size |-> args.size, A |-> AsmA, B |-> AsmB, scalar |-> args.p + 1,
     before |-> before, out |-> r.c, result |-> 0,
     chunks |-> r.chunks, W |-> r.W, rem |-> r.rem]

AsmMatrixAdd ==
    /\ args.op = "asm_matrix_add"
    /\ AsmFloatBranch(macros) # "accelerate"
    /\ asmk' = AsmDone(args.op, asm_matrix_add(AsmA, AsmB, AsmC, args.size, macros), AsmC)
    /\ UNCHANGED <<macros, cpu, args, simd, disp, mm, detector, prober>>

AsmVectorScale ==
    /\ args.op = "asm_vector_scale"
    /\ AsmFloatBranch(macros) # "accelerate"
    /\ asmk' = AsmDone(args.op,
                       asm_vector_scale(AsmA, AsmB, args.p + 1, args.size, macros), AsmB)
    /\ UNCHANGED <<macros, cpu, args, simd, disp, mm, detector, prober>>

AsmVectorBitwiseOr ==
    /\ args.op = "asm_vector_bitwise_or"
    /\ asmk' = AsmDone(args.op,
                       asm_vector_bitwise_or(AsmA, AsmB, AsmC, args.size, macros), AsmC)
    /\ UNCHANGED <<macros, cpu, args, simd, disp, mm, detector, prober>>

AsmVectorBitwiseAnd ==
    /\ args.op = "asm_vector_bitwise_and"
    /\ asmk' = AsmDone(args.op,
                       asm_vector_bitwise_and(AsmA, AsmB, AsmC, args.size, macros), AsmC)
    /\ UNCHANGED <<macros, cpu, args, simd, disp, mm, detector, prober>>

AsmVectorDot ==
    /\ args.op = "asm_vector_dot"
    /\ AsmFloatBranch(macros) # "accelerate"
    /\ LET r == asm_vector_dot(AsmA, AsmB, args.size, macros)
       IN asmk' = [fn |-> args.op, size |-> args.size, A |-> AsmA, B |-> AsmB,
                   scalar |-> 0, before |-> <<>>, out |-> <<>>, result |-> r.result,
                   chunks |-> r.chunks, W |-> r.W, rem |-> r.rem]
    /\ UNCHANGED <<macros, cpu, args, simd, disp, mm, detector, prober>>

InitAsm ==
    /\ macros \in AsmBuilds
    /\ cpu = NoCpu
    /\ args \in {a \in [op : AsmOps, size : 0..MaxN, p : 1..MaxPat, hot : -1..(MaxN - 1)] :
                    a.hot >= 0 => (a.op = "asm_vector_dot" /\ a.p = 1 /\ a.hot < a.size)}
    /\ simd = Idle
    /\ disp = Idle
    /\ mm = Idle
    /\ asmk = Idle
    /\ DetectorIdle
    /\ ProberIdle

NextAsm == AsmMatrixAdd \/ AsmVectorScale \/ AsmVectorBitwiseOr
           \/ AsmVectorBitwiseAnd \/ AsmVectorDot

SpecAsm == InitAsm /\ [][NextAsm]_vars

\* how often the chunk loop and the remainder loop together reach index x
Visits(x) ==
    Cardinality({c \in DOMAIN asmk.chunks :
                    x \in Range(asmk.chunks[c], asmk.chunks[c] + asmk.W)})
    + (IF x \in asmk.rem THEN 1 ELSE 0)

\* every index any loop reaches
Visited ==
    UNION {Range(asmk.chunks[c], asmk.chunks[c] + asmk.W) : c \in DOMAIN asmk.chunks}
    \cup asmk.rem

\* bit k of a two's-complement int
BitOf(v, k) == (v \div Pow2(k)) % 2

\* the scalar definition out[i] = f(A[i], B[i]) of each elementwise kernel
ScalarDefinition(x) ==
    CASE asmk.fn = "asm_matrix_add"   -> asmk.out[x] = asmk.A[x] + asmk.B[x]
      [] asmk.fn = "asm_vector_scale" -> asmk.out[x] = asmk.A[x] * asmk.scalar
      [] asmk.fn = "asm_vector_bitwise_or" ->
            /\ (asmk.out[x] < 0) = (asmk.A[x] < 0 \/ asmk.B[x] < 0)
            /\ \A k \in 0..30 : (BitOf(asmk.out[x], k) = 1)
                                = (BitOf(asmk.A[x], k) = 1 \/ BitOf(asmk.B[x], k) = 1)
      [] asmk.fn = "asm_vector_bitwise_and" ->
            /\ (asmk.out[x] < 0) = (asmk.A[x] < 0 /\ asmk.B[x] < 0)
            /\ \A k \in 0..30 : (BitOf(asmk.out[x], k) = 1)
                                = (BitOf(asmk.A[x], k) = 1 /\ BitOf(asmk.B[x], k) = 1)

\* C9: in asm_matrix_add, asm_vector_scale, asm_vector_bitwise_or and
\* asm_vector_bitwise_and the chunk loop plus the remainder loop visit every
\* index 0..size-1 exactly once and no index >= size, and the output equals
\* the scalar definition at every index below size.
C9_ChunksAndRemainderCoverOnce ==
    asmk.fn \in AsmElementOps
    => /\ \A x \in Range(0, asmk.size) : Visits(x) = 1 /\ ScalarDefinition(x)
       /\ Visited \subseteq Range(0, asmk.size)
       /\ \A x \in DOMAIN asmk.out : x >= asmk.size => asmk.out[x] = asmk.before[x]

\* a vectorized branch ran full chunks and a non-empty remainder
C9_Witness ==
    /\ asmk.fn = "asm_vector_bitwise_or"
    /\ asmk.W = 8
    /\ Len(asmk.chunks) = 2
    /\ asmk.rem = {16}
    /\ \E x \in Range(0, asmk.size) : asmk.A[x] < 0 /\ asmk.B[x] > 0

\* sum over i < n of A[i]*B[i]
RECURSIVE DotProduct(_, _, _)
DotProduct(A, B, n) == IF n = 0 THEN 0 ELSE DotProduct(A, B, n - 1) + A[n - 1] * B[n - 1]

\* C10: on every branch asm_vector_dot returns the sum over i < size of
\* A[i]*B[i], every index contributing exactly once ([1,2,3,4].[5,6,7,8] is
\* 70 and size 0 gives 0).
C10_DotSumsEveryIndexOnce ==
    asmk.fn = "asm_vector_dot"
    => /\ asmk.result = DotProduct(asmk.A, asmk.B, asmk.size)
       /\ \A x \in Range(0, asmk.size) : Visits(x) = 1
       /\ Visited \subseteq Range(0, asmk.size)
       /\ asmk.size = 0 => asmk.result = 0

\* the example of the specification on the SSE4.2 branch: one full chunk
C10_Witness ==
    /\ asmk.fn = "asm_vector_dot"
    /\ asmk.W = 4
    /\ asmk.size = 4
    /\ \A x \in Range(0, 4) : asmk.A[x] = x + 1 /\ asmk.B[x] = x + 5
    /\ asmk.result = 70

\* ------------------------- assembly_kernels.cpp: asm_matrix_multiply
MaxMatDim == 5      \* largest M, N and K passed to asm_matrix_multiply

\* the #if chain of asm_matrix_multiply
AsmMatMulBranch(m) ==
    IF PLATFORM_MACOS(m) /\ "__APPLE__" \in m THEN "accelerate"
    ELSE IF PLATFORM_WINDOWS(m) /\ "_MSC_VER" \in m /\ ARCH_X86_64(m) THEN "windows"
    ELSE IF PLATFORM_LINUX(m) /\ ARCH_X86_64(m) THEN "linux"
    ELSE IF ARCH_ARM64(m) \/ ARCH_ARM(m)
         THEN (IF "__ARM_NEON" \in m THEN "neon" ELSE "arm_scalar")
    ELSE "generic"

\* for (; k < K; k++) sum += A[i*K + k] * B[k*N + j];
RECURSIVE AsmSumK(_, _, _, _, _, _, _, _)
AsmSumK(A, B, i, j, k, K, N, sum) ==
    IF k < K
    THEN AsmSumK(A, B, i, j, k + 1, K, N, sum + Load(A, i * K + k) * Load(B, k * N + j))
    ELSE sum

\* NEON intrinsics of the multiply loop
vld1q_f32(buf, at) == [l \in Lanes(4) |-> Load(buf, at + l)]
vmlaq_f32(acc, a, b) == [l \in Lanes(4) |-> acc[l] + a[l] * b[l]]
vget_lane_f32(v, lane) == v[lane]

\* for (; k <= K - 4; k += 4) sum_vec = vmlaq_f32(sum_vec,
\*     vld1q_f32(&A[i*K + k]), vld1q_f32(&B[k*N + j]));
RECURSIVE NeonMultiplyChunks(_, _, _, _, _, _, _, _)
NeonMultiplyChunks(A, B, i, j, chunks, K, N, sum_vec) ==
    IF chunks = <<>> THEN sum_vec
    ELSE NeonMultiplyChunks(A, B, i, j, Tail(chunks), K, N,
            vmlaq_f32(sum_vec, vld1q_f32(A, i * K + Head(chunks)),
                               vld1q_f32(B, Head(chunks) * N + j)))

\* one element of C on the NEON branch
NeonElement(A, B, i, j, K, N) ==
    LET chunks   == ChunkStarts(0, K, 4)
        sum_vec  == NeonMultiplyChunks(A, B, i, j, chunks, K, N, ZeroVec(4))
        sum_low  == vadd_f32(vget_low_f32(sum_vec), vget_high_f32(sum_vec))
        sum      == 0 + (vget_lane_f32(sum_low, 0) + vget_lane_f32(sum_low, 1))
    IN AsmSumK(A, B, i, j, ChunkLoopEnd(chunks, 4), K, N, sum)

\* one element of C on the scalar branches
ScalarElement(A, B, i, j, K, N) == AsmSumK(A, B, i, j, 0, K, N, 0)

\* the buffer C after asm_matrix_multiply on a branch that this file
\* implements (the Accelerate branch hands the call to cblas_sgemm)
asm_matrix_multiply(A, B, C, M, N, K, m) ==
    LET branch == AsmMatMulBranch(m)
        out == [x \in Range(0, M * N) |->
                   IF branch = "neon" THEN NeonElement(A, B, x \div N, x % N, K, N)
                   ELSE ScalarElement(A, B, x \div N, x % N, K, N)]
    IN [C |-> [x \in DOMAIN C |-> IF x \in DOMAIN out THEN out[x] ELSE C[x]],
        branch |-> branch]

\* builds of asm_matrix_multiply: those of the other kernels, and the
\* Windows builds made with MSVC
MatMulBuilds ==
    AsmBuilds \cup {b \cup {"_MSC_VER"} : b \in {x \in AsmBuilds : "_WIN32" \in x}}

AsmMatrixMultiply ==
    /\ AsmMatMulBranch(macros) # "accelerate"
    /\ LET A == Matrix(args.p, args.M * args.K)
           B == Matrix(args.p + 1, args.K * args.N)
           C == Matrix(args.p + 2, args.M * args.N)
           r == asm_matrix_multiply(A, B, C, args.M, args.N, args.K, macros)
       IN asmk' = [fn |-> "asm_matrix_multiply", A |-> A, B |-> B, C |-> r.C,
                   M |-> args.M, N |-> args.N, K |-> args.K, branch |-> r.branch]
    /\ UNCHANGED <<macros, cpu, args, simd, disp, mm, detector, prober>>

InitMatMul ==
    /\ macros \in MatMulBuilds
    /\ cpu = NoCpu
    /\ args \in [M : 0..MaxMatDim, N : 0..MaxMatDim, K : 0..MaxMatDim, p : 1..MaxPat]
    /\ simd = Idle
    /\ disp = Idle
    /\ mm = Idle
    /\ asmk = Idle
    /\ DetectorIdle
    /\ ProberIdle

NextMatMul == AsmMatrixMultiply

SpecMatMul == InitMatMul /\ [][NextMatMul]_vars

\* the sum over k < upto of A[i*K+k] * B[k*N+j]
RECURSIVE ProductElement(_, _, _, _, _, _, _)
ProductElement(A, B, i, j, upto, K, N) ==
    IF upto = 0 THEN 0
    ELSE ProductElement(A, B, i, j, upto - 1, K, N)
         + A[i * K + (upto - 1)] * B[(upto - 1) * N + j]

\* C12: on every compiled branch of asm_matrix_multiply, the NEON branch
\* and K not a multiple of 4 included, C[i*N+j] is the sum over k < K of
\* A[i*K+k] * B[k*N+j].
C12_MatMulIsProduct ==
    asmk.fn = "asm_matrix_multiply"
    => \A i \in Range(0, asmk.M) : \A j \in Range(0, asmk.N) :
          asmk.C[i * asmk.N + j] = ProductElement(asmk.A, asmk.B, i, j, asmk.K, asmk.K, asmk.N)

\* the branches with the plain triple loop compute the product
C12_ScalarBranchesAreProduct ==
    (asmk.fn = "asm_matrix_multiply" /\ asmk.branch # "neon")
    => \A i \in Range(0, asmk.M) : \A j \in Range(0, asmk.N) :
          asmk.C[i * asmk.N + j] = ProductElement(asmk.A, asmk.B, i, j, asmk.K, asmk.K, asmk.N)

\* -------------------- pipeline_opt.c: prefetch, cache line, support level
\* GCC/Clang: __get_cpuid(1) fails -> 0.  MSVC: __cpuid has no failure result.
detect_prefetch_support(c, m) ==
    IF "_MSC_VER" \notin m /\ ~c.ok1 THEN 0
    ELSE IF Bit(c.edx1, 9) THEN 1 ELSE 0

\* mutation of get_cache_line_size: the shifted register is not masked
get_cache_line_size_NoMask(c, m) ==
    LET clflush_line_size == (c.ebx1 \div 256) * 8
    IN IF "_MSC_VER" \notin m /\ ~c.ok1 THEN 64
       ELSE IF clflush_line_size > 0 THEN clflush_line_size ELSE 64

\* ((ebx >> 8) & 0xff) * 8, or 64; GCC/Clang: __get_cpuid(1) fails -> 64
get_cache_line_size(c, m) ==
    LET clflush_line_size == ((c.ebx1 \div 256) % 256) * 8
    IN IF "_MSC_VER" \notin m /\ ~c.ok1 THEN 64
       ELSE IF clflush_line_size > 0 THEN clflush_line_size ELSE 64

\* mutation of is_pipeline_opt_supported: prefetch_support is not tested
is_pipeline_opt_supported_IgnoresPrefetch(c, m) ==
    LET features == detect_cpu_features(c, m)
        prefetch_support == detect_prefetch_support(c, m)
        cache_line_size == get_cache_line_size(c, m)
    IN [features |-> features, prefetch_support |-> prefetch_support,
        cache_line_size |-> cache_line_size,
        ret |-> IF Bit(features, 7) THEN 2
                ELSE IF Bit(features, 5) THEN 1
                ELSE 0]

\* the locals of is_pipeline_opt_supported and the level it returns
is_pipeline_opt_supported(c, m) ==
    LET features == detect_cpu_features(c, m)
        prefetch_support == detect_prefetch_support(c, m)
        cache_line_size == get_cache_line_size(c, m)
    IN [features |-> features, prefetch_support |-> prefetch_support,
        cache_line_size |-> cache_line_size,
        ret |-> IF Bit(features, 7) /\ prefetch_support # 0 THEN 2
                ELSE IF Bit(features, 5) /\ prefetch_support # 0 THEN 1
                ELSE 0]

\* builds of pipeline_opt.c: GCC/Clang (<cpuid.h>) and MSVC (<intrin.h>)
CapBuilds == {{}, {"_MSC_VER"}}

\* answers to leaf 1 and leaf 7: every combination of the flags that the
\* support level depends on, then every CLFLUSH line size field next to
\* other bits of EBX (bit 31 included: -32768 * 65536 is 0x80000000)
FlagCpus ==
    {[NoCpu EXCEPT !.ok1 = o[1], !.ok7 = o[2], !.ecx1 = e, !.edx1 = d, !.ebx7 = b,
                   !.ecx7 = x[1], !.edx7 = x[2], !.ebx1 = 8 * 256] :
        o \in {<<FALSE, FALSE>>, <<TRUE, FALSE>>, <<TRUE, TRUE>>},
        e \in {0, Pow2(20), Pow2(28), 1 + Pow2(9) + Pow2(19) + Pow2(20) + Pow2(28)},
        d \in {0, Pow2(9), Pow2(25) + Pow2(26), Pow2(9) + Pow2(25) + Pow2(26)},
        b \in {0, Pow2(5), Pow2(3) + Pow2(8)},
        x \in {<<0, 0>>, <<Pow2(20), 0>>, <<Pow2(9) + Pow2(28), Pow2(26)>>}}

CacheCpus ==
    {[NoCpu EXCEPT !.ok1 = o, !.edx1 = Pow2(9) + Pow2(25) + Pow2(26),
                   !.ebx1 = high * 65536 + field * 256 + low] :
        o \in BOOLEAN, high \in {0, 32767, -32768, -1}, field \in 0..255, low \in {0, 255}}

CapCpus == FlagCpus \cup CacheCpus

IsPipelineOptSupported ==
    /\ LET r == is_pipeline_opt_supported(cpu, macros)
       IN info' = [fn |-> "is_pipeline_opt_supported", features |-> r.features,
                   prefetch_support |-> r.prefetch_support,
                   cache_line_size |-> r.cache_line_size, ret |-> r.ret]
    /\ UNCHANGED <<macros, cpu, args, simd, disp, mm, asmk, brand, features_str, th, sched, prober>>

\* every x86 processor an MSVC build runs on implements leaf 1; whether it
\* implements leaf 7 depends on its generation
InitCap ==
    /\ macros \in CapBuilds
    /\ cpu \in {c \in CapCpus : "_MSC_VER" \in macros => c.ok1}
    /\ args = Idle
    /\ simd = Idle
    /\ disp = Idle
    /\ mm = Idle
    /\ asmk = Idle
    /\ DetectorIdle
    /\ ProberIdle

NextCap == IsPipelineOptSupported

SpecCap == InitCap /\ [][NextCap]_vars

LevelDone == info.fn = "is_pipeline_opt_supported"

\* C15: is_pipeline_opt_supported returns 2 exactly when the AVX2 flag and
\* prefetch are both detected, 1 exactly when AVX2 is not detected but the
\* SSE4.2 flag and prefetch are, 0 otherwise; the result is 0, 1 or 2.
C15_LevelFromFlagsAndPrefetch ==
    LevelDone
    => LET avx2     == Bit(info.features, 7)
           sse42    == Bit(info.features, 5)
           prefetch == info.prefetch_support # 0
       IN /\ info.ret \in {0, 1, 2}
          /\ info.ret = 2 <=> (avx2 /\ prefetch)
          /\ info.ret = 1 <=> (~avx2 /\ sse42 /\ prefetch)
          /\ info.ret = 0 <=> ~((avx2 \/ sse42) /\ prefetch)

\* a processor with SSE4.2, AVX and prefetch but without AVX2 got level 1
C15_Witness ==
    /\ LevelDone
    /\ Bit(info.features, 5) /\ Bit(info.features, 6) /\ ~Bit(info.features, 7)
    /\ info.prefetch_support = 1
    /\ info.ret = 1

\* the flags that the answer to leaf 1 reports
Leaf1Flags(c) ==
      (IF Bit(c.edx1, 25) THEN 1 ELSE 0) + (IF Bit(c.edx1, 26) THEN 2 ELSE 0)
    + (IF Bit(c.ecx1, 0) THEN 4 ELSE 0) + (IF Bit(c.ecx1, 9) THEN 8 ELSE 0)
    + (IF Bit(c.ecx1, 19) THEN 16 ELSE 0) + (IF Bit(c.ecx1, 20) THEN 32 ELSE 0)
    + (IF Bit(c.ecx1, 28) THEN 64 ELSE 0)

\* C16: when leaf 1 is unavailable the detection reports no feature flag and
\* no prefetch and the level is 0; when only leaf 7 is unavailable the AVX2
\* flag is clear and the flags of leaf 1 are still reported.
C16_FailedQueriesDegrade ==
    LevelDone
    => /\ ~cpu.ok1 => (info.features = 0 /\ info.prefetch_support = 0 /\ info.ret = 0)
       /\ (cpu.ok1 /\ ~cpu.ok7) => (~Bit(info.features, 7) /\ info.features = Leaf1Flags(cpu))

\* the GCC/Clang path, which tests the result of both queries, degrades so
C16_GccPathDegrades ==
    (LevelDone /\ "_MSC_VER" \notin macros)
    => /\ ~cpu.ok1 => (info.features = 0 /\ info.prefetch_support = 0 /\ info.ret = 0)
       /\ (cpu.ok1 /\ ~cpu.ok7) => (~Bit(info.features, 7) /\ info.features = Leaf1Flags(cpu))

\* bits 8..15 of EBX of leaf 1
ClflushField(c) ==
      (IF Bit(c.ebx1, 8) THEN 1 ELSE 0) + (IF Bit(c.ebx1, 9) THEN 2 ELSE 0)
    + (IF Bit(c.ebx1, 10) THEN 4 ELSE 0) + (IF Bit(c.ebx1, 11) THEN 8 ELSE 0)
    + (IF Bit(c.ebx1, 12) THEN 16 ELSE 0) + (IF Bit(c.ebx1, 13) THEN 32 ELSE 0)
    + (IF Bit(c.ebx1, 14) THEN 64 ELSE 0) + (IF Bit(c.ebx1, 15) THEN 128 ELSE 0)

\* C17: get_cache_line_size returns ((EBX >> 8) & 0xff) * 8 when the query
\* succeeds and that value is non-zero, and 64 when the field is zero or the
\* query fails; for every EBX the result is a positive multiple of 8 that
\* does not exceed 2040.
C17_CacheLineSize ==
    LevelDone
    => /\ info.cache_line_size =
            (IF cpu.ok1 /\ ClflushField(cpu) # 0 THEN ClflushField(cpu) * 8 ELSE 64)
       /\ info.cache_line_size > 0
       /\ info.cache_line_size % 8 = 0
       /\ info.cache_line_size <= 2040

\* the largest field, in an EBX whose bit 31 and low byte are set
C17_Witness ==
    /\ LevelDone
    /\ cpu.ok1 /\ cpu.ebx1 < 0 /\ Bit(cpu.ebx1, 0)
    /\ ClflushField(cpu) = 255
    /\ info.cache_line_size = 2040

\* ------------------------------- pipeline_opt.c: the memoized strings
MaxCalls == 2       \* calls made of each query function
MaxBrandLen == 4    \* leading bytes of the raw brand that take every value

\* what a read of the byte at index x of a buffer returns; the static
\* buffers always hold a NUL before their end, and no read goes past it
At(buf, x) == buf[x]

\* the C string that starts at index x of a buffer
RECURSIVE CStrFrom(_, _)
CStrFrom(buf, x) == IF At(buf, x) = NUL THEN <<>> ELSE <<buf[x]>> \o CStrFrom(buf, x + 1)

CStr(buf) == CStrFrom(buf, 0)

\* strcpy(buf, str)
strcpy(buf, str) ==
    [x \in DOMAIN buf |-> IF x < Len(str) THEN str[x + 1]
                          ELSE IF x = Len(str) THEN NUL ELSE buf[x]]

UnknownCpu == <<"U", "n", "k", "n", "o", "w", "n", " ", "C", "P", "U">>

\* the 16 bytes EAX, EBX, ECX, EDX of leaf 0x80000002 + k stored at brand + 16*k
WriteBrandLeaf(buf, k, c) ==
    [x \in DOMAIN buf |-> IF x \in Range(16 * k, 16 * k + 16) THEN c.raw[x + 1] ELSE buf[x]]

\* while (*p == ' ') p++;
RECURSIVE SkipLeadingSpaces(_, _)
SkipLeadingSpaces(buf, p) == IF At(buf, p) = " " THEN SkipLeadingSpaces(buf, p + 1) ELSE p

\* mutation of SkipsChar: no space is skipped
SkipsChar_Never(ch, prev) == FALSE

\* if (*src == ' ' && prev == ' ')
SkipsChar(ch, prev) == ch = " " /\ prev = " "

\* while (*src) { skip or *dst++ = *src; prev = *src++; }  *dst = '\0';
RECURSIVE CompactLoop(_, _, _, _)
CompactLoop(buf, src, dst, prev) ==
    IF At(buf, src) = NUL THEN [buf EXCEPT ![dst] = NUL]
    ELSE IF SkipsChar(buf[src], prev) THEN CompactLoop(buf, src + 1, dst, prev)
    ELSE CompactLoop([buf EXCEPT ![dst] = buf[src]], src + 1, dst + 1, buf[src])

\* lines 182-198: leading spaces removed, runs of spaces collapsed, in place
CompactBrand(buf) == CompactLoop(buf, SkipLeadingSpaces(buf, 0), 0, NUL)

\* the buffer after the brand is fetched: three leaves, or "Unknown CPU"
FetchBrand(buf, c) ==
    IF c.max_ext >= 4
    THEN WriteBrandLeaf(WriteBrandLeaf(WriteBrandLeaf(buf, 0, c), 1, c), 2, c)
    ELSE strcpy(buf, UnknownCpu)

\* the buffer after the call; the caller receives a pointer to it
get_cpu_brand_string(buf, c, m) ==
    IF buf[0] # NUL THEN buf ELSE CompactBrand(FetchBrand(buf, c))

\* the characters of the string literals of get_cpu_features_string
Header == <<"F", "e", "a", "t", "u", "r", "e", "s", ":", " ">>

FeatureNames ==
    <<<<"S", "S", "E", " ">>,
      <<"S", "S", "E", "2", " ">>,
      <<"S", "S", "E", "3", " ">>,
      <<"S", "S", "S", "E", "3", " ">>,
      <<"S", "S", "E", "4", ".", "1", " ">>,
      <<"S", "S", "E", "4", ".", "2", " ">>,
      <<"A", "V", "X", " ">>,
      <<"A", "V", "X", "2", " ">>>>

PrefetchName == <<"P", "R", "E", "F", "E", "T", "C", "H", " ">>

CacheLineName == <<"C", "a", "c", "h", "e", "L", "i", "n", "e", "S", "i", "z", "e", "=">>

DigitChars == <<"0", "1", "2", "3", "4", "5", "6", "7", "8", "9">>

\* the characters sprintf writes for %d
RECURSIVE Decimal(_)
Decimal(n) ==
    IF n < 0 THEN <<"-">> \o Decimal(0 - n)
    ELSE IF n < 10 THEN <<DigitChars[n + 1]>>
    ELSE Decimal(n \div 10) \o <<DigitChars[(n % 10) + 1]>>

\* the index of the terminating NUL of the C string in buf
strlen(buf) == Len(CStr(buf))

\* strcat(buf, str): str and its NUL are stored from the end of the string
strcat(buf, str) ==
    LET n == strlen(buf)
    IN [x \in DOMAIN buf |-> IF x \in Range(n, n + Len(str)) THEN str[x - n + 1]
                             ELSE IF x = n + Len(str) THEN NUL ELSE buf[x]]

\* the second arguments of the strcat calls that follow the sprintf, in order
FeatureCats(c, m) ==
    LET features == detect_cpu_features(c, m)
        flags == SelectSeq(<<1, 2, 3, 4, 5, 6, 7, 8>>, LAMBDA k : Bit(features, k - 1))
    IN [x \in DOMAIN flags |-> FeatureNames[flags[x]]]
       \o (IF detect_prefetch_support(c, m) # 0 THEN <<PrefetchName>> ELSE <<>>)
       \o <<CacheLineName \o Decimal(get_cache_line_size(c, m))>>

\* strcat(dst, src[1]); strcat(dst, src[2]); ...
RECURSIVE StrcatAll(_, _)
StrcatAll(dst, src) ==
    IF src = <<>> THEN dst ELSE StrcatAll(strcat(dst, Head(src)), Tail(src))

\* mutation of get_cpu_features_string: no fast path, and the header is
\* appended to the buffer instead of written at its start
get_cpu_features_string_AppendsEveryCall(str, c, m) ==
    StrcatAll(strcat(str, Header), FeatureCats(c, m))

\* the buffer after the call; the caller receives a pointer to it;
\* sprintf(features_str, "Features: ") stores the literal and its NUL
get_cpu_features_string(str, c, m) ==
    IF str[0] # NUL THEN str ELSE StrcatAll(strcpy(str, Header), FeatureCats(c, m))

\* raw brands: every choice of the leading bytes, followed by 48 - MaxBrandLen
\* equal bytes
BrandRaws ==
    {[x \in 1..48 |-> IF x <= MaxBrandLen THEN lead[x] ELSE fill] :
        lead \in [1..MaxBrandLen -> {" ", "A", NUL}], fill \in {NUL, " ", "B"}}

MemoCpus ==
    {[c EXCEPT !.max_ext = 4, !.raw = r] :
        c \in {NoCpu, [NoCpu EXCEPT !.ok1 = TRUE, !.ok7 = TRUE, !.ebx1 = 8 * 256,
                                    !.ecx1 = Pow2(20) + Pow2(28), !.ebx7 = Pow2(5),
                                    !.ecx7 = Pow2(9) + Pow2(28), !.edx7 = Pow2(26),
                                    !.edx1 = Pow2(9) + Pow2(25) + Pow2(26)]},
        r \in BrandRaws}
    \cup {NoCpu}

NoCalls == [fn |-> "none",
            calls |-> [level |-> 0, features |-> 0, brand |-> 0],
            first |-> [level |-> -1, features |-> <<>>, brand |-> <<>>],
            last  |-> [level |-> -1, features |-> <<>>, brand |-> <<>>]]

\* the log after function f has returned r
Logged(f, fn, r) ==
    [fn |-> fn,
     calls |-> [info.calls EXCEPT ![f] = @ + 1],
     first |-> IF info.calls[f] = 0 THEN [info.first EXCEPT ![f] = r] ELSE info.first,
     last  |-> [info.last EXCEPT ![f] = r]]

CallLevel ==
    /\ info.calls.level < MaxCalls
    /\ info' = Logged("level", "is_pipeline_opt_supported",
                      is_pipeline_opt_supported(cpu, macros).ret)
    /\ UNCHANGED <<macros, cpu, args, simd, disp, mm, asmk, brand, features_str, th, sched, prober>>

CallFeatures ==
    /\ info.calls.features < MaxCalls
    /\ features_str' = get_cpu_features_string(features_str, cpu, macros)
    /\ info' = Logged("features", "get_cpu_features_string", CStr(features_str'))
    /\ UNCHANGED <<macros, cpu, args, simd, disp, mm, asmk, brand, th, sched, prober>>

CallBrand ==
    /\ info.calls.brand < MaxCalls
    /\ brand' = get_cpu_brand_string(brand, cpu, macros)
    /\ info' = Logged("brand", "get_cpu_brand_string", CStr(brand'))
    /\ UNCHANGED <<macros, cpu, args, simd, disp, mm, asmk, features_str, th, sched, prober>>

InitMemo ==
    /\ macros \in CapBuilds
    /\ cpu \in {c \in MemoCpus : "_MSC_VER" \in macros => c.ok1}
    /\ args = Idle
    /\ simd = Idle
    /\ disp = Idle
    /\ mm = Idle
    /\ asmk = Idle
    /\ brand = [x \in 0..63 |-> NUL]
    /\ features_str = [x \in 0..255 |-> NUL]
    /\ th = <<>>
    /\ info = NoCalls
    /\ sched = NoThread
    /\ ProberIdle

NextMemo == CallLevel \/ CallFeatures \/ CallBrand

SpecMemo == InitMemo /\ [][NextMemo]_vars

\* C14: for fixed CPUID answers, every call of is_pipeline_opt_supported,
\* of get_cpu_features_string and of get_cpu_brand_string returns what the
\* first call of that function returned, also when the first string
\* computed is empty.
C14_CallsRepeatFirstResult ==
    info.fn # "none"
    => /\ info.calls.level > 0 => info.last.level = info.first.level
       /\ info.calls.features > 0 => info.last.features = info.first.features
       /\ info.calls.brand > 0 => info.last.brand = info.first.brand

\* the brand was computed as the empty string, so nothing was memoized, and
\* was asked for again; the features string was served from its buffer
C14_Witness ==
    /\ info.fn = "get_cpu_brand_string"
    /\ info.calls.brand = MaxCalls
    /\ info.first.brand = <<>>
    /\ cpu.raw[1] = " "
    /\ info.calls.features = MaxCalls
    /\ info.calls.level = MaxCalls

\* the raw brand as a C string: its bytes up to the first NUL
RECURSIVE RawString(_, _)
RawString(raw, x) ==
    IF x > Len(raw) \/ raw[x] = NUL THEN <<>> ELSE <<raw[x]>> \o RawString(raw, x + 1)

NonSpace(str) == SelectSeq(str, LAMBDA ch : ch # " ")

\* C20: for every raw 48-byte brand, the string get_cpu_brand_string
\* returns has no leading space and no two consecutive spaces, is
\* NUL-terminated inside the 64-byte buffer, and its non-space characters
\* are those of the raw string in the same order.
C20_BrandNormalized ==
    (info.fn # "none" /\ info.calls.brand > 0 /\ cpu.max_ext >= 4)
    => LET r == info.last.brand
       IN /\ r = <<>> \/ r[1] # " "
          /\ \A x \in 1..(Len(r) - 1) : ~(r[x] = " " /\ r[x + 1] = " ")
          /\ Len(r) < 64 /\ brand[Len(r)] = NUL
          /\ \A x \in 1..Len(r) : brand[x - 1] = r[x]
          /\ NonSpace(r) = NonSpace(RawString(cpu.raw, 1))

\* a raw brand of 48 non-NUL bytes with a leading space and a run of two
\* spaces came back as 46 bytes
C20_Witness ==
    /\ info.calls.brand > 0
    /\ cpu.max_ext >= 4
    /\ \A x \in 1..48 : cpu.raw[x] # NUL
    /\ cpu.raw[1] = " " /\ cpu.raw[2] = "A" /\ cpu.raw[3] = " " /\ cpu.raw[4] = " "
    /\ Len(info.last.brand) = 46

\* ---------------- pipeline_opt.c: the string getters called concurrently
MaxThreads == 2     \* threads that call a string getter
MaxPreempt == 3     \* times a thread is preempted inside a getter

Threads == 1..MaxThreads

StringGetters == {"get_cpu_brand_string", "get_cpu_features_string"}

\* buf after bytes are stored from index at
StoreBytes(buf, at, bytes) ==
    [x \in DOMAIN buf |-> IF x \in Range(at, at + Len(bytes)) THEN bytes[x - at + 1]
                          ELSE buf[x]]

\* the sequences of stores with which a build copies the bytes of str, its
\* NUL included, to index at: sprintf, strcat and strcpy are a library loop
\* that stores byte after byte in one build and a few register stores of
\* up to eight bytes in another, the last register first in some
StorePlans(str, at) ==
    LET Pieces(unit) ==
            [i \in 1..((Len(str) + unit - 1) \div unit) |->
                [at |-> at + (i - 1) * unit,
                 bytes |-> SubSeq(str, (i - 1) * unit + 1,
                                  IF i * unit < Len(str) THEN i * unit ELSE Len(str))]]
        words == Pieces(8)
    IN {Pieces(1), words, [i \in 1..Len(words) |-> words[Len(words) + 1 - i]]}

\* a thread about to execute the first statement of getter fn; its locals:
\* k, the bytes of the brand stored so far, then p; todo, the strcat calls
\* still to make; pend, the stores the running sprintf, strcat or strcpy
\* has still to make; src, dst, prev of the compaction loop; ch, the byte
\* last loaded from *p or *src, and cached, whether it was loaded from the
\* current src; ret, the string the caller receives
Entering(fn) == [fn |-> fn, pc |-> "check", k |-> 0, todo |-> <<>>,
                 pend |-> <<>>, src |-> 0, dst |-> 0, prev |-> NUL,
                 ch |-> NUL, cached |-> FALSE, ret |-> <<>>]

\* thread t takes the next step: the thread that ran last runs on, or it
\* has returned, or it is preempted inside its getter
Run(t) ==
    LET preempted == /\ sched.running \notin {0, t}
                     /\ th[sched.running].pc # "done"
    IN /\ preempted => sched.preempts < MaxPreempt
       /\ sched' = [running |-> t,
                    preempts |-> IF preempted THEN sched.preempts + 1 ELSE sched.preempts]

\* if (brand[0] != '\0') return brand;  if (features_str[0] != '\0') return
\* features_str;  no lock is taken: the test reads the shared static buffer
CheckMemo(t) ==
    /\ th[t].pc = "check"
    /\ Run(t)
    /\ th' = [th EXCEPT ![t] =
                IF th[t].fn = "get_cpu_brand_string"
                THEN (IF brand[0] # NUL
                      THEN [@ EXCEPT !.pc = "done", !.ret = CStr(brand)]
                      ELSE [@ EXCEPT !.pc = "fetch"])
                ELSE (IF features_str[0] # NUL
                      THEN [@ EXCEPT !.pc = "done", !.ret = CStr(features_str)]
                      ELSE [@ EXCEPT !.pc = "sprintf"])]
    /\ UNCHANGED <<macros, cpu, args, simd, disp, mm, asmk, brand, features_str, info, prober>>

\* int features = detect_cpu_features(); sprintf(features_str, "Features: ")
\* begins: the literal and its NUL are to be stored from index 0
FeaturesSprintf(t) ==
    /\ th[t].pc = "sprintf"
    /\ Run(t)
    /\ \E plan \in StorePlans(Header \o <<NUL>>, 0) :
          th' = [th EXCEPT ![t].pc = "store", ![t].todo = FeatureCats(cpu, macros),
                           ![t].pend = plan]
    /\ UNCHANGED <<macros, cpu, args, simd, disp, mm, asmk, brand, features_str, info, prober>>

\* the running sprintf or strcat makes its next store; the other threads
\* run between two stores
FeaturesStore(t) ==
    /\ th[t].pc = "store"
    /\ Run(t)
    /\ features_str' = StoreBytes(features_str, Head(th[t].pend).at, Head(th[t].pend).bytes)
    /\ th' = [th EXCEPT ![t].pend = Tail(@),
                        ![t].pc = IF Len(th[t].pend) = 1 THEN "strcat" ELSE "store"]
    /\ UNCHANGED <<macros, cpu, args, simd, disp, mm, asmk, brand, info, prober>>

\* the next strcat(features_str, ...) begins: it finds the end of the
\* string that the buffer holds now
FeaturesStrcat(t) ==
    /\ th[t].pc = "strcat"
    /\ Run(t)
    /\ th[t].todo # <<>>
    /\ \E plan \in StorePlans(Head(th[t].todo) \o <<NUL>>, strlen(features_str)) :
          th' = [th EXCEPT ![t].pc = "store", ![t].todo = Tail(@), ![t].pend = plan]
    /\ UNCHANGED <<macros, cpu, args, simd, disp, mm, asmk, brand, features_str, info, prober>>

\* return features_str;
FeaturesReturn(t) ==
    /\ th[t].pc = "strcat"
    /\ Run(t)
    /\ th[t].todo = <<>>
    /\ th' = [th EXCEPT ![t].pc = "done", ![t].ret = CStr(features_str)]
    /\ UNCHANGED <<macros, cpu, args, simd, disp, mm, asmk, brand, features_str, info, prober>>

\* bytes stored at once while the brand leaves are copied: a register with
\* *brand_ptr++ = eax (GCC/Clang), a piece of memcpy (MSVC)
BrandStoreUnit(m) == IF "_MSC_VER" \in m THEN 1 ELSE 4

\* max_ext_id >= 0x80000004: the next bytes of the three leaves are stored
BrandFetch(t) ==
    /\ th[t].pc = "fetch"
    /\ Run(t)
    /\ cpu.max_ext >= 4
    /\ LET unit == BrandStoreUnit(macros)
       IN /\ brand' = [x \in DOMAIN brand |->
                          IF x \in Range(th[t].k, th[t].k + unit)
                          THEN cpu.raw[x + 1] ELSE brand[x]]
          /\ th' = [th EXCEPT ![t].k = IF th[t].k + unit = 48 THEN 0 ELSE @ + unit,
                              ![t].pc = IF th[t].k + unit = 48 THEN "skip" ELSE "fetch"]
    /\ UNCHANGED <<macros, cpu, args, simd, disp, mm, asmk, features_str, info, prober>>

\* else strcpy(brand, "Unknown CPU"): the next store is made
BrandStrcpy(t) ==
    /\ th[t].pc = "fetch"
    /\ Run(t)
    /\ cpu.max_ext < 4
    /\ \E plan \in IF th[t].pend = <<>> THEN StorePlans(UnknownCpu \o <<NUL>>, 0)
                   ELSE {th[t].pend} :
          /\ brand' = StoreBytes(brand, Head(plan).at, Head(plan).bytes)
          /\ th' = [th EXCEPT ![t].pend = Tail(plan),
                              ![t].pc = IF Len(plan) = 1 THEN "skip" ELSE "fetch"]
    /\ UNCHANGED <<macros, cpu, args, simd, disp, mm, asmk, features_str, info, prober>>

\* char* p = brand; while (*p == ' ') p++;  one load of *p and its test;
\* then src = p; dst = brand; prev = 0, and the byte loaded is still in a
\* register
BrandSkip(t) ==
    /\ th[t].pc = "skip"
    /\ Run(t)
    /\ th' = [th EXCEPT ![t] =
                IF At(brand, th[t].k) = " "
                THEN [@ EXCEPT !.k = @ + 1]
                ELSE [@ EXCEPT !.pc = "while", !.src = th[t].k, !.dst = 0,
                               !.prev = NUL, !.ch = At(brand, th[t].k),
                               !.cached = TRUE]]
    /\ UNCHANGED <<macros, cpu, args, simd, disp, mm, asmk, brand, features_str, info, prober>>

\* what an evaluation of *src gives: the byte in memory now, or the byte
\* an earlier evaluation of the same *src left in a register (a build
\* loads *src at every use or once per pass)
Loaded(t) == {At(brand, th[t].src)} \cup (IF th[t].cached THEN {th[t].ch} ELSE {})

\* while (*src)
BrandWhile(t) ==
    /\ th[t].pc = "while"
    /\ Run(t)
    /\ \E v \in Loaded(t) :
          th' = [th EXCEPT ![t].ch = v, ![t].cached = TRUE,
                           ![t].pc = IF v = NUL THEN "terminate" ELSE "if"]
    /\ UNCHANGED <<macros, cpu, args, simd, disp, mm, asmk, brand, features_str, info, prober>>

\* if (*src == ' ' && prev == ' ') { src++; continue; }
BrandIf(t) ==
    /\ th[t].pc = "if"
    /\ Run(t)
    /\ \E v \in Loaded(t) :
          th' = [th EXCEPT ![t] =
                    IF SkipsChar(v, th[t].prev)
                    THEN [@ EXCEPT !.src = @ + 1, !.cached = FALSE, !.pc = "while"]
                    ELSE [@ EXCEPT !.ch = v, !.pc = "copy"]]
    /\ UNCHANGED <<macros, cpu, args, simd, disp, mm, asmk, brand, features_str, info, prober>>

\* the load of *src in *dst++ = *src
BrandCopy(t) ==
    /\ th[t].pc = "copy"
    /\ Run(t)
    /\ \E v \in Loaded(t) : th' = [th EXCEPT ![t].ch = v, ![t].pc = "put"]
    /\ UNCHANGED <<macros, cpu, args, simd, disp, mm, asmk, brand, features_str, info, prober>>

\* the store of *dst++ = *src
BrandPut(t) ==
    /\ th[t].pc = "put"
    /\ Run(t)
    /\ brand' = [brand EXCEPT ![th[t].dst] = th[t].ch]
    /\ th' = [th EXCEPT ![t].dst = @ + 1, ![t].pc = "prev"]
    /\ UNCHANGED <<macros, cpu, args, simd, disp, mm, asmk, features_str, info, prober>>

\* prev = *src++;
BrandPrev(t) ==
    /\ th[t].pc = "prev"
    /\ Run(t)
    /\ \E v \in Loaded(t) :
          th' = [th EXCEPT ![t].prev = v, ![t].src = @ + 1, ![t].cached = FALSE,
                           ![t].pc = "while"]
    /\ UNCHANGED <<macros, cpu, args, simd, disp, mm, asmk, brand, features_str, info, prober>>

\* *dst = '\0';
BrandTerminate(t) ==
    /\ th[t].pc = "terminate"
    /\ Run(t)
    /\ brand' = [brand EXCEPT ![th[t].dst] = NUL]
    /\ th' = [th EXCEPT ![t].pc = "return"]
    /\ UNCHANGED <<macros, cpu, args, simd, disp, mm, asmk, features_str, info, prober>>

\* return brand;
BrandReturn(t) ==
    /\ th[t].pc = "return"
    /\ Run(t)
    /\ th' = [th EXCEPT ![t].pc = "done", ![t].ret = CStr(brand)]
    /\ UNCHANGED <<macros, cpu, args, simd, disp, mm, asmk, brand, features_str, info, prober>>

\* a processor whose brand has spaces to remove and whose leaf 7 answers,
\* and one that answers leaf 1 only and has no extended leaves
ThreadCpus ==
    {[NoCpu EXCEPT !.ok1 = TRUE, !.ok7 = TRUE, !.ebx1 = 8 * 256,
                   !.ecx1 = Pow2(20), !.edx1 = Pow2(9), !.ebx7 = Pow2(5),
                   !.max_ext = 4,
                   !.raw = [x \in 1..48 |-> IF x \in {2, 5} THEN "A"
                                            ELSE IF x < 6 THEN " " ELSE NUL]],
     [NoCpu EXCEPT !.ok1 = TRUE]}

InitThreads ==
    /\ macros \in CapBuilds
    /\ cpu \in ThreadCpus
    /\ args = Idle
    /\ simd = Idle
    /\ disp = Idle
    /\ mm = Idle
    /\ asmk = Idle
    /\ brand = [x \in 0..63 |-> NUL]
    /\ features_str = [x \in 0..255 |-> NUL]
    /\ th \in [Threads -> {Entering(fn) : fn \in StringGetters}]
    /\ info = Idle
    /\ sched = NoThread
    /\ ProberIdle

NextThreads ==
    \E t \in Threads :
        \/ CheckMemo(t)
        \/ FeaturesSprintf(t)
        \/ FeaturesStore(t)
        \/ FeaturesStrcat(t)
        \/ FeaturesReturn(t)
        \/ BrandFetch(t)
        \/ BrandStrcpy(t)
        \/ BrandSkip(t)
        \/ BrandWhile(t)
        \/ BrandIf(t)
        \/ BrandCopy(t)
        \/ BrandPut(t)
        \/ BrandPrev(t)
        \/ BrandTerminate(t)
        \/ BrandReturn(t)

SpecThreads == InitThreads /\ [][NextThreads]_vars

\* the string a getter returns when it runs alone
CompleteString(fn) ==
    IF fn = "get_cpu_brand_string"
    THEN CStr(get_cpu_brand_string([x \in 0..63 |-> NUL], cpu, macros))
    ELSE CStr(get_cpu_features_string([x \in 0..255 |-> NUL], cpu, macros))

\* C13: when the string getters are called concurrently, every caller
\* receives the complete final string; no caller takes the fast path or
\* reads the static buffer while another thread has written it only partly.
C13_CallersGetCompleteString ==
    \A t \in DOMAIN th :
        th[t].pc = "done" => th[t].ret = CompleteString(th[t].fn)

\* a getter that runs while no other thread is inside the same getter
\* returns the complete string
C13_AloneGetsCompleteString ==
    \A t \in DOMAIN th :
        (th[t].pc = "done" /\ \A u \in DOMAIN th : u # t => th[u].fn # th[t].fn)
        => th[t].ret = CompleteString(th[t].fn)

\* --------------------------- assembly_kernels.cpp: get_platform_info
get_platform_info(m) ==
    IF PLATFORM_WINDOWS(m) /\ ARCH_X86_64(m) THEN 1
    ELSE IF PLATFORM_WINDOWS(m) /\ ARCH_X86(m) THEN 2
    ELSE IF PLATFORM_MACOS(m) /\ ARCH_X86_64(m) THEN 3
    ELSE IF PLATFORM_MACOS(m) /\ ARCH_ARM64(m) THEN 4
    ELSE IF PLATFORM_LINUX(m) /\ ARCH_X86_64(m) THEN 5
    ELSE IF PLATFORM_LINUX(m) /\ ARCH_X86(m) THEN 6
    ELSE IF PLATFORM_LINUX(m) /\ ARCH_ARM(m) THEN 7
    ELSE IF PLATFORM_LINUX(m) /\ ARCH_ARM64(m) THEN 8
    ELSE IF PLATFORM_ANDROID(m) /\ ARCH_ARM(m) THEN 9
    ELSE IF PLATFORM_ANDROID(m) /\ ARCH_ARM64(m) THEN 10
    ELSE 0

\* the macros compilers predefine for an operating system and for an
\* architecture; an Android toolchain predefines __ANDROID__ and __linux__
OsMacros == {{"_WIN32"}, {"_WIN32", "_WIN64"}, {"__APPLE__", "__MACH__"},
             {"__linux__"}, {"__linux__", "__ANDROID__"}, {}}
ArchMacros == {{"__x86_64__"}, {"_M_X64"}, {"__i386"}, {"_M_IX86"}, {"__arm__"},
               {"_M_ARM"}, {"__aarch64__"}, {"_M_ARM64"}, {}}

PlatformBuilds ==
    {os \cup arch \cup ext :
        os \in OsMacros, arch \in ArchMacros,
        ext \in SUBSET {"__AVX2__", "__SSE4_2__", "__ARM_NEON"}}

GetPlatformInfo ==
    /\ asmk' = [fn |-> "get_platform_info", ret |-> get_platform_info(macros)]
    /\ UNCHANGED <<macros, cpu, args, simd, disp, mm, detector, prober>>

InitPlatform ==
    /\ macros \in PlatformBuilds
    /\ cpu = NoCpu
    /\ args = Idle
    /\ simd = Idle
    /\ disp = Idle
    /\ mm = Idle
    /\ asmk = Idle
    /\ DetectorIdle
    /\ ProberIdle

NextPlatform == GetPlatformInfo

SpecPlatform == InitPlatform /\ [][NextPlatform]_vars

\* the operating system and the architecture a build targets
TargetOs(m) ==
    IF "_WIN32" \in m THEN "Windows"
    ELSE IF "__APPLE__" \in m THEN "macOS"
    ELSE IF "__ANDROID__" \in m THEN "Android"
    ELSE IF "__linux__" \in m THEN "Linux"
    ELSE "other"

TargetArch(m) ==
    IF "__x86_64__" \in m \/ "_M_X64" \in m THEN "x86_64"
    ELSE IF "__i386" \in m \/ "_M_IX86" \in m THEN "x86"
    ELSE IF "__arm__" \in m \/ "_M_ARM" \in m THEN "ARM"
    ELSE IF "__aarch64__" \in m THEN "ARM64"
    ELSE "other"

\* the table of the header
DocumentedCode(os, arch) ==
    CASE os = "Windows" /\ arch = "x86_64" -> 1
      [] os = "Windows" /\ arch = "x86"    -> 2
      [] os = "macOS"   /\ arch = "x86_64" -> 3
      [] os = "macOS"   /\ arch = "ARM64"  -> 4
      [] os = "Linux"   /\ arch = "x86_64" -> 5
      [] os = "Linux"   /\ arch = "x86"    -> 6
      [] os = "Linux"   /\ arch = "ARM"    -> 7
      [] os = "Linux"   /\ arch = "ARM64"  -> 8
      [] os = "Android" /\ arch = "ARM"    -> 9
      [] os = "Android" /\ arch = "ARM64"  -> 10
      [] OTHER -> 0

\* C18: get_platform_info returns the code the header documents for the
\* build's operating system and architecture, Android builds (where
\* __ANDROID__ is predefined together with __linux__) included, and 0 for
\* every combination that is not in the table.
C18_PlatformCodeAsDocumented ==
    asmk.fn = "get_platform_info"
    => asmk.ret = DocumentedCode(TargetOs(macros), TargetArch(macros))

\* every build that is not for Android gets the documented code
C18_NonAndroidAsDocumented ==
    (asmk.fn = "get_platform_info" /\ "__ANDROID__" \notin macros)
    => asmk.ret = DocumentedCode(TargetOs(macros), TargetArch(macros))

\* -------------- simd_kernels.cpp: the dispatcher on the caller's memory
\* dispatch_matrix_multiply(float* A, float* B, float* C, ...): the three
\* matrices are pointers into the caller's memory, element idx of a matrix
\* is the cell at its pointer + idx, and nothing in the signature keeps the
\* three apart. heap is that memory, A, B and C are addresses in it.

\* cells of the caller's memory
HeapTop == 3 * MaxDispDim * MaxDispDim + 1

\* the memory as the caller filled it with pattern p
Heap(p) == [x \in Range(0, HeapTop) |-> Val(p, x)]

\* the buffer a pointer names: element idx is the cell at ptr + idx
Deref(heap, ptr) == [idx \in Range(0, HeapTop - ptr) |-> heap[ptr + idx]]

\* the cells of rows [i, i_end) and columns [j, j_end) in the order the ii
\* and jj loops visit them; the sum of a cell runs over [k, k_end) and starts
\* at C[ii * cols_b + jj] (acc) or at 0.0f
CellSeq(i, i_end, j, j_end, k, k_end, acc) ==
    IF i_end > i /\ j_end > j
    THEN [x \in 1..((i_end - i) * (j_end - j)) |->
            [ii |-> i + ((x - 1) \div (j_end - j)), jj |-> j + ((x - 1) % (j_end - j)),
             k |-> k, k_end |-> k_end, acc |-> acc]]
    ELSE <<>>

\* the cells of the blocks, block after block
RECURSIVE BlockCells(_)
BlockCells(blocks) ==
    IF blocks = <<>> THEN <<>>
    ELSE LET blk == Head(blocks)
         IN CellSeq(blk.i, blk.i_end, blk.j, blk.j_end, blk.k, blk.k_end, TRUE)
            \o BlockCells(Tail(blocks))

\* cell after cell: the sum is read from A and B as the memory holds them
\* at that moment, then stored to C[ii * cols_b + jj]
RECURSIVE StoreCells(_, _, _, _, _, _, _)
StoreCells(heap, A, B, C, cells, cols_a, cols_b) ==
    IF cells = <<>> THEN heap
    ELSE LET c   == Head(cells)
             at  == C + c.ii * cols_b + c.jj
             sum == SumK(Deref(heap, A), Deref(heap, B), c.ii, c.jj, cols_a, cols_b,
                         c.k, c.k_end, IF c.acc THEN heap[at] ELSE 0)
         IN StoreCells([heap EXCEPT ![at] = sum], A, B, C, Tail(cells), cols_a, cols_b)

\* matrix_multiply on the caller's memory: the memory it leaves
matrix_multiply_mem(heap, A, B, C, rows_a, cols_a, cols_b) ==
    StoreCells(heap, A, B, C, CellSeq(0, rows_a, 0, cols_b, 0, cols_a, FALSE),
               cols_a, cols_b)

\* mutation of matrix_multiply_optimized_mem: the memset covers
\* rows_a * cols_a elements instead of rows_a * cols_b
matrix_multiply_optimized_mem_MemsetColsA(heap, A, B, C, rows_a, cols_a, cols_b, simd_type) ==
    LET zeroed == [x \in DOMAIN heap |->
                     IF x \in Range(C, C + rows_a * cols_a) THEN 0 ELSE heap[x]]
    IN StoreCells(zeroed, A, B, C,
                  BlockCells(BlockSeq(0, 0, 0, rows_a, cols_a, cols_b)), cols_a, cols_b)

\* matrix_multiply_optimized on the caller's memory: memset(C, 0,
\* rows_a * cols_b * sizeof(float)), then the block loops
matrix_multiply_optimized_mem(heap, A, B, C, rows_a, cols_a, cols_b, simd_type) ==
    LET zeroed == [x \in DOMAIN heap |->
                     IF x \in Range(C, C + rows_a * cols_b) THEN 0 ELSE heap[x]]
    IN StoreCells(zeroed, A, B, C,
                  BlockCells(BlockSeq(0, 0, 0, rows_a, cols_a, cols_b)), cols_a, cols_b)

\* dispatch_matrix_multiply on the caller's memory: the kernel it calls and
\* the memory the kernel leaves
dispatch_matrix_multiply_mem(heap, A, B, C, rows_a, cols_a, cols_b, simd_type, m) ==
    LET sel == IF ~simd_type.isnull
               THEN [fn |-> "matrix_multiply_optimized", simd_type |-> simd_type.s]
               ELSE AutoSelect(m)
    IN [kernels |-> <<sel>>,
        heap |-> IF sel.fn = "matrix_multiply_optimized"
                 THEN matrix_multiply_optimized_mem(heap, A, B, C, rows_a, cols_a, cols_b,
                                                    sel.simd_type)
                 ELSE matrix_multiply_mem(heap, A, B, C, rows_a, cols_a, cols_b)]

\* where a caller puts the three matrices: one after the other with C
\* first, A and B the same matrix, the product written over A, over B, or
\* one element into A
Layouts == {"packed", "square", "over_A", "over_B", "into_A"}

Larger(x, y) == IF x > y THEN x ELSE y

Pointers(lay, M, K, N) ==
    CASE lay = "packed" -> [C |-> 0, A |-> M * N, B |-> M * N + M * K]
      [] lay = "square" -> [A |-> 0, B |-> 0, C |-> Larger(M * K, K * N)]
      [] lay = "over_A" -> [A |-> 0, C |-> 0, B |-> Larger(M * K, M * N)]
      [] lay = "over_B" -> [B |-> 0, C |-> 0, A |-> Larger(K * N, M * N)]
      [] lay = "into_A" -> [A |-> 0, C |-> 1, B |-> Larger(M * K, 1 + M * N)]

\* the cells of the three matrices of the call
CellsOfA == Range(args.A, args.A + args.M * args.K)
CellsOfB == Range(args.B, args.B + args.K * args.N)
CellsOfC == Range(args.C, args.C + args.M * args.N)

\* one call of the dispatcher on memory that holds `entry`
DispatchOn(entry, again) ==
    LET r == dispatch_matrix_multiply_mem(entry, args.A, args.B, args.C,
                                          args.M, args.K, args.N, args.hint, macros)
    IN [fn |-> "dispatch_matrix_multiply", entry |-> entry,
        kernels |-> r.kernels, heap |-> r.heap, again |-> again,
        first |-> IF again THEN [kernels |-> disp.kernels, entry |-> disp.entry,
                                 heap |-> disp.heap]
                  ELSE Idle]

\* the first call, on memory that holds pattern p
DispatchFirst ==
    /\ disp.fn = "none"
    /\ disp' = DispatchOn(Heap(args.p), FALSE)
    /\ UNCHANGED <<macros, cpu, args, simd, mm, asmk, detector, prober>>

\* the same call again on the memory the first call left
DispatchAgainSameBuffer ==
    /\ disp.fn # "none" /\ ~disp.again
    /\ disp' = DispatchOn(disp.heap, TRUE)
    /\ UNCHANGED <<macros, cpu, args, simd, mm, asmk, detector, prober>>

\* the same call again after the caller has filled C with pattern q+4
DispatchAgainOtherBuffer ==
    /\ disp.fn # "none" /\ ~disp.again
    /\ \E q \in 1..MaxPat :
         disp' = DispatchOn([x \in DOMAIN disp.heap |->
                               IF x \in CellsOfC THEN Val(q + 4, x) ELSE disp.heap[x]],
                            TRUE)
    /\ UNCHANGED <<macros, cpu, args, simd, mm, asmk, detector, prober>>

\* hints of the repeated call: NULL, the empty string, a tier name,
\* "baseline" and a string that names nothing
RepeatHints == {NullHint} \cup {StrHint(s) : s \in {"", "avx2", "baseline", "bogus"}}

InitRepeat ==
    /\ macros \in SUBSET TierMacros
    /\ cpu = NoCpu
    /\ \E hint \in RepeatHints, M \in 0..MaxDispDim, K \in 0..MaxDispDim,
          N \in 0..MaxDispDim, p \in 1..MaxPat, lay \in Layouts :
         args = [hint |-> hint, M |-> M, K |-> K, N |-> N, p |-> p,
                 A |-> Pointers(lay, M, K, N).A, B |-> Pointers(lay, M, K, N).B,
                 C |-> Pointers(lay, M, K, N).C]
    /\ simd = Idle
    /\ disp = Idle
    /\ mm = Idle
    /\ asmk = Idle
    /\ DetectorIdle
    /\ ProberIdle

NextRepeat == DispatchFirst \/ DispatchAgainSameBuffer \/ DispatchAgainOtherBuffer

SpecRepeat == InitRepeat /\ [][NextRepeat]_vars

\* two memories hold the same values in the cells of S
SameOn(h1, h2, S) == \A x \in S : h1[x] = h2[x]

\* the call left A and B as it found them; and when this call found the A
\* and B the first call had found, it ran the same kernel and left the same
\* C as the first call
RepeatableAndInputsKept ==
    /\ SameOn(disp.entry, disp.heap, CellsOfA \cup CellsOfB)
    /\ (disp.again /\ SameOn(disp.entry, disp.first.entry, CellsOfA \cup CellsOfB))
       => /\ disp.kernels = disp.first.kernels
          /\ SameOn(disp.heap, disp.first.heap, CellsOfC)

\* C19 as stated: every call of dispatch_matrix_multiply leaves A and B
\* unchanged, and two calls with the same A, B, dimensions and hint run the
\* same kernel and leave the same C, whatever C held before each call.
C19_DispatchRepeatable ==
    disp.fn # "none" => RepeatableAndInputsKept

\* C19, amended: when no element of C is an element of A or of B, every call
\* of dispatch_matrix_multiply leaves A and B unchanged, and two calls with
\* the same A, B, dimensions and hint run the same kernel and leave the same
\* C, whatever C held before each call.
C19_DispatchRepeatableApart ==
    (disp.fn # "none" /\ CellsOfC \cap (CellsOfA \cup CellsOfB) = {})
    => RepeatableAndInputsKept

\* C ends where A begins, the second call found other values in C than the
\* first call had found, and both left in C a product that differs from
\* either
C19_Witness ==
    /\ disp.fn # "none" /\ disp.again
    /\ args.M = MaxDispDim /\ args.K = MaxDispDim /\ args.N = MaxDispDim
    /\ args.A = args.C + args.M * args.N
    /\ ~SameOn(disp.entry, disp.first.entry, CellsOfC)
    /\ ~SameOn(disp.heap, disp.entry, CellsOfC)
    /\ ~SameOn(disp.heap, disp.first.entry, CellsOfC)
    /\ disp.kernels[1].fn = "matrix_multiply_optimized"

\* ------------- assembly_kernels.cpp: get_assembly_optimization_level
\* the branch of the #if chain that sets level
LevelPath(m) ==
    IF ARCH_X86_64(m) \/ ARCH_X86(m)
    THEN (IF "__AVX2__" \in m THEN "avx2_macro"
          ELSE IF "__AVX__" \in m \/ "__SSE4_2__" \in m THEN "avx_sse42_macro"
          ELSE IF "_MSC_VER" \in m THEN "runtime_msvc"
          ELSE "runtime_gcc")
    ELSE IF ARCH_ARM64(m) THEN "arm64"
    ELSE IF ARCH_ARM(m) THEN (IF "__ARM_NEON" \in m THEN "arm_neon" ELSE "arm")
    ELSE "none"

\* MSVC: __cpuid(cpuInfo, 1); bit 28 of cpuInfo[2] -> 2, else bit 19 -> 1
RuntimeLevelMsvc(c) ==
    IF Bit(c.ecx1, 28) THEN 2
    ELSE IF Bit(c.ecx1, 19) THEN 1
    ELSE 0

\* GCC style: cpuid leaf 1, ECX bit 19 -> 1; cpuid leaf 7, EBX bit 5 -> 2
RuntimeLevelGcc(c) ==
    LET level1 == IF Bit(c.ecx1, 19) THEN 1 ELSE 0
    IN IF Bit(c.ebx7, 5) THEN 2 ELSE level1

\* detected: level after the architecture part; ret: the value returned,
\* after the macOS override
get_assembly_optimization_level(c, m) ==
    LET path == LevelPath(m)
        level == CASE path = "avx2_macro"      -> 2
                   [] path = "avx_sse42_macro" -> 1
                   [] path = "runtime_msvc"    -> RuntimeLevelMsvc(c)
                   [] path = "runtime_gcc"     -> RuntimeLevelGcc(c)
                   [] path = "arm64"           -> 2
                   [] path = "arm_neon"        -> 1
                   [] OTHER                    -> 0
    IN [path |-> path, detected |-> level,
        ret |-> IF PLATFORM_MACOS(m) THEN 2 ELSE level]

\* builds of both detectors: an OS, an architecture, vector extensions
\* enabled at compile time, and for Windows the MSVC compiler
LevelBuilds ==
    {os \cup arch \cup ext :
        os \in {{"__linux__"}, {"_WIN32"}, {"_WIN32", "_MSC_VER"}, {"__APPLE__", "__MACH__"}},
        arch \in {{"__x86_64__"}, {"__i386"}, {"__arm__"}, {"__aarch64__"}},
        ext \in SUBSET {"__AVX2__", "__AVX__", "__SSE4_2__", "__ARM_NEON"}}

\* processors that answer leaves 1 and 7: every combination of SSE4.1,
\* SSE4.2, AVX (leaf 1 ECX bits 19, 20, 28), CLFLUSH (EDX bit 9), AVX2
\* (leaf 7 EBX bit 5) and bit 20 of ECX of leaf 7
LevelCpus ==
    {[NoCpu EXCEPT !.ok1 = TRUE, !.ok7 = TRUE, !.ebx1 = 8 * 256,
                   !.ecx1 = b19 * Pow2(19) + b20 * Pow2(20) + b28 * Pow2(28),
                   !.edx1 = d9 * Pow2(9) + Pow2(25) + Pow2(26),
                   !.ebx7 = b5 * Pow2(5), !.ecx7 = c20 * Pow2(20)] :
        b19 \in 0..1, b20 \in 0..1, b28 \in 0..1, d9 \in 0..1, b5 \in 0..1,
        c20 \in 0..1}

GetAssemblyOptimizationLevel ==
    /\ LET r == get_assembly_optimization_level(cpu, macros)
       IN asmk' = [fn |-> "get_assembly_optimization_level", path |-> r.path,
                   detected |-> r.detected, ret |-> r.ret]
    /\ UNCHANGED <<macros, cpu, args, simd, disp, mm, detector, prober>>

InitLevel ==
    /\ macros \in LevelBuilds
    /\ cpu \in LevelCpus
    /\ args = Idle
    /\ simd = Idle
    /\ disp = Idle
    /\ mm = Idle
    /\ asmk = Idle
    /\ DetectorIdle
    /\ ProberIdle

NextLevel == GetAssemblyOptimizationLevel \/ IsPipelineOptSupported

SpecLevel == InitLevel /\ [][NextLevel]_vars

\* the level the feature table gives: AVX2 -> 2, else SSE4.1 -> 1, else 0
TableLevel(c) ==
    IF Bit(c.ebx7, 5) THEN 2 ELSE IF Bit(c.ecx1, 19) THEN 1 ELSE 0

RuntimeDetected ==
    /\ asmk.fn = "get_assembly_optimization_level"
    /\ asmk.path \in {"runtime_msvc", "runtime_gcc"}

\* C21: in the runtime-detection part of get_assembly_optimization_level
\* the MSVC path and the GCC-style path return the same level for the same
\* CPUID answers: 2 exactly when leaf 7 EBX bit 5 (AVX2) is set, otherwise 1
\* exactly when leaf 1 ECX bit 19 (SSE4.1) is set, otherwise 0.
C21_RuntimePathsDecodeSameTable ==
    RuntimeDetected
    => /\ asmk.detected = TableLevel(cpu)
       /\ RuntimeLevelMsvc(cpu) = RuntimeLevelGcc(cpu)

\* the GCC-style path decodes the table
C21_GccPathDecodesTable ==
    (RuntimeDetected /\ asmk.path = "runtime_gcc") => asmk.detected = TableLevel(cpu)

\* C22: on an x86 build that uses runtime detection,
\* get_assembly_optimization_level and is_pipeline_opt_supported return the
\* same level, one of 0, 1, 2, for every CPUID answer.
C22_DetectorsAgree ==
    (RuntimeDetected /\ LevelDone)
    => /\ asmk.ret \in {0, 1, 2}
       /\ info.ret \in {0, 1, 2}
       /\ asmk.ret = info.ret

\* both detectors return a level in 0..2
C22_BothInRange ==
    /\ asmk.fn = "get_assembly_optimization_level" => asmk.ret \in {0, 1, 2}
    /\ LevelDone => info.ret \in {0, 1, 2}

\* ----------------------------------- memory_probes.c: the memory probe
MaxMem == 3         \* largest memory reading and threshold, in MB

NullPtr == [isnull |-> TRUE]

\* a MemoryProbe the caller passes: whether name is set, and the threshold
Probe(named, threshold) == [isnull |-> FALSE, named |-> named, threshold |-> threshold]

\* mutation of mem_probe: the peak is overwritten with every reading
mem_probe_PeakIsCurrent(probe, result_given, peak, mem_usage, mem_available) ==
    LET peak2    == IF result_given THEN mem_usage ELSE peak
        exceeded == IF ~probe.isnull /\ probe.threshold > 0 /\ mem_usage > probe.threshold
                    THEN 1 ELSE 0
    IN [ret |-> exceeded,
        peak_memory |-> peak2,
        alert |-> exceeded = 1 /\ probe.named,
        result |-> IF result_given
                   THEN [isnull |-> FALSE, current_memory |-> mem_usage,
                         peak_memory |-> peak2, available_memory |-> mem_available,
                         threshold_exceeded |-> exceeded, error_code |-> 0]
                   ELSE NullPtr]

\* mem_probe with the readings current_mem() and available_mem() return:
\* the value returned, the static peak after the call, whether an alert is
\* logged, and *result after the call (its timestamp is left out)
mem_probe(probe, result_given, peak, mem_usage, mem_available) ==
    LET peak2    == IF result_given /\ mem_usage > peak THEN mem_usage ELSE peak
        exceeded == IF ~probe.isnull /\ probe.threshold > 0 /\ mem_usage > probe.threshold
                    THEN 1 ELSE 0
    IN [ret |-> exceeded,
        peak_memory |-> peak2,
        alert |-> exceeded = 1 /\ probe.named,
        result |-> IF result_given
                   THEN [isnull |-> FALSE, current_memory |-> mem_usage,
                         peak_memory |-> peak2, available_memory |-> mem_available,
                         threshold_exceeded |-> exceeded, error_code |-> 0]
                   ELSE NullPtr]

\* check_memory_usage builds a probe from its arguments and forwards it
check_memory_usage(named, threshold, result_given, peak, mem_usage, mem_available) ==
    mem_probe(Probe(named, threshold), result_given, peak, mem_usage, mem_available)

\* the log after a call: earlier is the largest peak_memory that the calls
\* before this one wrote into a result, -1 when none did
ProbeLogged(fn, probe, mem_usage, r) ==
    [fn |-> fn, probe |-> probe, mem_usage |-> mem_usage,
     ret |-> r.ret, result |-> r.result, alert |-> r.alert,
     earlier |-> IF memlog.fn = "none" THEN -1
                 ELSE IF memlog.result.isnull THEN memlog.earlier
                 ELSE IF memlog.result.peak_memory > memlog.earlier
                      THEN memlog.result.peak_memory ELSE memlog.earlier]

MemProbe ==
    \E probe \in {NullPtr} \cup {Probe(nm, t) : nm \in BOOLEAN, t \in 0..MaxMem},
       result_given \in BOOLEAN, mem_usage \in 0..MaxMem, mem_available \in {0, MaxMem} :
        LET r == mem_probe(probe, result_given, peak_memory, mem_usage, mem_available)
        IN /\ peak_memory' = r.peak_memory
           /\ memlog' = ProbeLogged("mem_probe", probe, mem_usage, r)
           /\ UNCHANGED <<macros, cpu, args, simd, disp, mm, asmk, detector>>

CheckMemoryUsage ==
    \E named \in BOOLEAN, threshold \in 0..MaxMem,
       result_given \in BOOLEAN, mem_usage \in 0..MaxMem, mem_available \in {0, MaxMem} :
        LET r == check_memory_usage(named, threshold, result_given, peak_memory,
                                    mem_usage, mem_available)
        IN /\ peak_memory' = r.peak_memory
           /\ memlog' = ProbeLogged("check_memory_usage", Probe(named, threshold),
                                    mem_usage, r)
           /\ UNCHANGED <<macros, cpu, args, simd, disp, mm, asmk, detector>>

InitProbe ==
    /\ macros = {}
    /\ cpu = NoCpu
    /\ args = Idle
    /\ simd = Idle
    /\ disp = Idle
    /\ mm = Idle
    /\ asmk = Idle
    /\ DetectorIdle
    /\ ProberIdle

NextProbe == MemProbe \/ CheckMemoryUsage

SpecProbe == InitProbe /\ [][NextProbe]_vars

\* C23: across any sequence of mem_probe / check_memory_usage calls, with
\* null and non-null probe and result arguments, the peak_memory written
\* into a result is never lower than the peak_memory written by an earlier
\* call nor than the current_memory of the same result; the value returned
\* is 1 exactly when a probe is given with threshold > 0 and the current
\* memory above it, and equals the result's threshold_exceeded field.
C23_PeakMonotoneAndReturn ==
    memlog.fn # "none"
    => /\ ~memlog.result.isnull
            => /\ memlog.result.peak_memory >= memlog.earlier
               /\ memlog.result.peak_memory >= memlog.result.current_memory
               /\ memlog.result.threshold_exceeded = memlog.ret
       /\ memlog.ret \in {0, 1}
       /\ memlog.ret = 1 <=> /\ ~memlog.probe.isnull
                             /\ memlog.probe.threshold > 0
                             /\ memlog.mem_usage > memlog.probe.threshold

\* after an earlier call wrote a higher peak, a call found less memory in
\* use, still above its threshold, and wrote a result
C23_Witness ==
    /\ memlog.fn = "check_memory_usage"
    /\ ~memlog.result.isnull
    /\ memlog.earlier = MaxMem
    /\ memlog.result.current_memory < memlog.earlier
    /\ memlog.result.peak_memory = MaxMem
    /\ memlog.ret = 1
    /\ memlog.result.threshold_exceeded = 1

InitSimd ==
    /\ macros \in SUBSET TierMacros
    /\ cpu = NoCpu
    /\ args \in [op : SimdOps, tier : SimdTiers \cup {"baseline"},
                 n : 0..MaxN, p : 1..MaxPat, mapped : BOOLEAN]
    /\ simd = Idle
    /\ disp = Idle
    /\ mm = Idle
    /\ asmk = Idle
    /\ DetectorIdle
    /\ ProberIdle

NextSimd == CallTierKernel \/ CallBaselineKernel

SpecSimd == InitSimd /\ [][NextSimd]_vars

\* C1: every tier kernel reads and writes exactly the element indices
\* 0..n-1 of each buffer and never an index >= n, also when n is not a
\* multiple of the tier's vector width.
C1_KernelTouchesExactlyN ==
    simd.fn # "none" =>
        /\ simd.rd = Range(0, simd.n)
        /\ simd.wr = Range(0, simd.n)
        /\ \A x \in DOMAIN simd.out : x >= simd.n => simd.out[x] = simd.before[x]

\* C11: for every tier and every n >= 0, also n below the tier's vector
\* width, the kernel returns and the first n output elements equal those of
\* the *_baseline kernel on the same inputs.
C11_TierRefinesBaseline ==
    (simd.fn \in SimdOps /\ simd.tier \in SimdTiers)
    => /\ ~simd.fault
       /\ \A x \in Range(0, simd.n) :
            simd.out[x] = SimdCall(simd.fn, "baseline", simd.n, simd.p, simd.mapped).out[x]

\* where the memory behind the buffers is mapped the kernel returns and its
\* first n outputs are the baseline's
C11_MappedAgrees ==
    (simd.fn \in SimdOps /\ simd.tier \in SimdTiers /\ simd.mapped)
    => /\ ~simd.fault
       /\ \A x \in Range(0, simd.n) :
            simd.out[x] = SimdCall(simd.fn, "baseline", simd.n, simd.p, TRUE).out[x]

====
